---- MODULE Spec2Model ----
(***************************************************************************)
(* Process-execution core of run-command.c: start_command, finish_command, *)
(* wait_or_whine, the registry of children to clean (children_to_clean)    *)
(* and the cleanup handlers, as a state machine.                            *)
(*                                                                         *)
(* The parent process runs one or two threads (Spec: one, SpecMT: two).    *)
(* Each thread executes start_command / finish_command on launch requests  *)
(* statement by statement wherever shared state is read or written.  The   *)
(* forked children, the OS process table and the notification pipe are     *)
(* part of the state.  The build modelled is the POSIX one (GIT_FORK is    *)
(* fork, not GIT_WINDOWS_NATIVE).  Stream planning (lines 305-355) appears *)
(* here only by its outcome: all pipes created, or fail_pipe.              *)
(***************************************************************************)
EXTENDS Integers, Sequences, FiniteSets, TLC

\* ------------------------------------------------------------------ bounds
MaxLaunches == 2
MaxEINTR == 1
MaxDies == 3

\* --------------------------------------------------------------- constants
SIGINT == 2
SIGTERM == 15
EXIT_ENOENT == 127
EXIT_DIE == 128
NULL == 0

\* The caller keeps two launch requests, so at most two children are
\* outstanding at a time; pids and list nodes are as many.
Cmds == {1, 2}
Pids == {1, 2}
Nodes == {1, 2}
Threads == {1, 2}
CommonSignals == {SIGINT, SIGTERM}
DeathSignals == {SIGINT, SIGTERM}
ProgramExitCodes == {0, 1, EXIT_ENOENT}
NOERR == "0"

\* The programs a request can name, and what the file system holds for them.
Programs == {"prog", "missing", "hidden", "noexec", "file/x"}
\* hook paths as git_path("hooks/%s", name) builds them: an executable file,
\* no file, a file without the execute permission
Hooks == {"hooks/ok", "hooks/absent", "hooks/noexec"}

\* The descriptors of request c: what the caller may supply for stdin, stdout
\* and stderr (k = 1, 2, 3) and the two ends pipe() fills into fdin, fdout and
\* fderr.  Every descriptor has a number of its own, so that a descriptor
\* closed twice, or never, shows.
Fd(c, k) == 10 * c + k
FdsOf(c) == {Fd(c, k) : k \in 1 .. 9}
GivenFds(c) == {Fd(c, k) : k \in 1 .. 3}
fdin(c) == <<Fd(c, 4), Fd(c, 5)>>
fdout(c) == <<Fd(c, 6), Fd(c, 7)>>
fderr(c) == <<Fd(c, 8), Fd(c, 9)>>

\* The stream fields of a request as the caller fills them: 0 to inherit,
\* -1 to ask for a pipe, k > 0 for the caller's own descriptor Fd(c, k).
Inherit == [in |-> 0, out |-> 0, err |-> 0, no_stdin |-> FALSE, no_stdout |-> FALSE,
            stdout_to_stderr |-> FALSE, no_stderr |-> FALSE]
PlainStreams ==
    {[Inherit EXCEPT !.in = i, !.out = o, !.err = e] :
        i \in {0, -1, 1}, o \in {0, -1, 2}, e \in {0, -1, 3}}
FlaggedStreams ==
    {[Inherit EXCEPT !.no_stdin = TRUE, !.in = -1, !.out = -1],
     [Inherit EXCEPT !.no_stdout = TRUE, !.out = -1, !.err = -1],
     [Inherit EXCEPT !.stdout_to_stderr = TRUE, !.out = -1, !.err = -1],
     [Inherit EXCEPT !.no_stderr = TRUE, !.err = -1, !.in = 1]}
PipeFailures == {"none", "in", "out", "err"}

VARIABLES
    alive,                          \* the parent: "running", "killed", "exited"
    children_to_clean,              \* head of the list (a node or NULL)
    heap,                           \* the struct child_to_clean nodes
    installed_child_cleanup_handler,
    sigchain,                       \* signals whose top handler is cleanup_children_on_signal
    cmd,                            \* the struct child_process of each request
    notify,                         \* notify_pipe of each launch
    proc,                           \* the OS process table
    kills,                          \* every kill(), sigchain_pop() and raise() issued, in order
    thr,                            \* each thread's position, locals and errno
    env,                            \* what the environment of this run can do
    launches,                       \* the calls of start_command so far
    fds,                            \* the parent's descriptors and its close() calls
    async,                          \* the struct async and its task
    call,                           \* a function applied to its argument
    child,                          \* a forked child on its way to the exec
    image                           \* the exit handlers of the process and of its async child

vars == <<alive, children_to_clean, heap, installed_child_cleanup_handler,
          sigchain, cmd, notify, proc, kills, thr, env, launches, fds, async, call, child, image>>

\* ------------------------------------------------------------ pure helpers

\* strchr(file, '/')
HasSlash(file) == file \in {"file/x"} \cup Hooks

\* errno of execvp(file, argv); NOERR when the image is replaced
execvp(file) ==
    CASE file = "prog" -> NOERR
      [] file = "missing" -> "ENOENT"
      [] file = "hidden" -> "EACCES"
      [] file = "noexec" -> "EACCES"
      [] file = "file/x" -> "ENOTDIR"
      [] file = "hooks/ok" -> NOERR
      [] file = "hooks/absent" -> "ENOENT"
      [] file = "hooks/noexec" -> "EACCES"

\* locate_in_PATH(file) != NULL
exists_in_PATH(file) == file \in {"prog", "noexec"}

\* sane_execvp without lines 157-160: the errno of execvp as it is
sane_execvp_untranslated(file) == execvp(file)

\* errno left by sane_execvp
sane_execvp(file) ==
    LET e == execvp(file) IN
    IF e = "EACCES" /\ ~HasSlash(file)
    THEN (IF exists_in_PATH(file) THEN "EACCES" ELSE "ENOENT")
    ELSE IF e = "ENOTDIR" /\ ~HasSlash(file) THEN "ENOENT"
    ELSE e

NoStatus == [kind |-> "none", val |-> 0]
Exited(n) == [kind |-> "exited", val |-> n]
Signaled(s) == [kind |-> "signaled", val |-> s]

RECURSIVE Walk(_, _, _)
Walk(h, n, fuel) ==
    IF n = NULL \/ fuel = 0 THEN <<>>
    ELSE <<n>> \o Walk(h, h[n].next, fuel - 1)

\* the nodes reachable from children_to_clean, in list order
RegNodes == Walk(heap, children_to_clean, Cardinality(Nodes) + 1)
\* the pids the registry holds, in list order
RegSeq == [i \in 1 .. Len(RegNodes) |-> heap[RegNodes[i]].pid]
RegPids == {RegSeq[i] : i \in 1 .. Len(RegSeq)}

\* free(p): the node's memory is released
FreedNode == [pid |-> 0, next |-> NULL, used |-> FALSE]
FreeNodes == {n \in Nodes : ~heap[n].used}
\* xmalloc(sizeof(*p))
xmalloc == CHOOSE n \in FreeNodes : \A m \in FreeNodes : n <= m

\* kill(pid, sig) as the kernel applies it to the process table
KillProc(pt, pid, sig) ==
    IF pt[pid].state \in {"forked", "dying", "execd", "task"}
    THEN [pt EXCEPT ![pid].state = "zombie", ![pid].status = Signaled(sig)]
    ELSE pt

RECURSIVE KillAll(_, _, _)
KillAll(pt, pids, sig) ==
    IF pids = <<>> THEN pt
    ELSE KillAll(KillProc(pt, Head(pids), sig), Tail(pids), sig)

RECURSIVE KillLog(_, _, _, _)
KillLog(pt, pids, sig, by) ==
    IF pids = <<>> THEN <<>>
    ELSE <<[op |-> "kill", pid |-> Head(pids), sig |-> sig, by |-> by,
            hit |-> pt[Head(pids)].state]>>
         \o KillLog(KillProc(pt, Head(pids), sig), Tail(pids), sig, by)

\* a freed node is reachable from children_to_clean, or the walk comes back
\* to a node it has passed (which cleanup_children would have freed by then)
ListDangles ==
    \/ \E i \in 1 .. Len(RegNodes) : ~heap[RegNodes[i]].used
    \/ \E i, j \in 1 .. Len(RegNodes) : i < j /\ RegNodes[i] = RegNodes[j]

\* the pids of the list up to its first freed node
RECURSIVE SoundPrefix(_, _, _)
SoundPrefix(h, n, fuel) ==
    IF n = NULL \/ fuel = 0 \/ ~h[n].used THEN <<>>
    ELSE <<h[n].pid>> \o SoundPrefix(h, h[n].next, fuel - 1)

\* The list of pids a forked child finds in its copy of the registry.  Past
\* a freed node the copy holds whatever the freed memory holds: the list may
\* end there or name one more pid.
InheritedLists ==
    IF ~installed_child_cleanup_handler THEN {<<>>}
    ELSE IF ~ListDangles THEN {RegSeq}
    ELSE LET pre == SoundPrefix(heap, children_to_clean, Cardinality(Nodes))
         IN {pre} \cup {pre \o <<q>> : q \in Pids}

\* the child process of request c, while the OS still knows it
ChildOf(c) == {q \in Pids : proc[q].state # "free" /\ proc[q].cmd = c}
\* the child still holds notify_pipe[1] (not yet closed by exec or exit)
ChildHoldsNotify(c) == \E q \in ChildOf(c) : proc[q].state \in {"forked", "dying"}
\* lines 362-366 and 457: the parent holds both ends of the pipe of request c
\* from pipe(notify_pipe) until close(notify_pipe[1]), in particular while
\* the thread that created it has not yet read from it
ParentHoldsNotify(c) ==
    /\ notify[c].created
    /\ \E t \in Threads :
          /\ thr[t].cmd = c
          /\ thr[t].pc \in {"fork", "mark_link", "mark_publish", "mark_install"}
\* the pipes a child forked for request c gets a copy of and never closes:
\* line 382 sets FD_CLOEXEC on its own notify_pipe[1] only, after the fork,
\* and nothing sets it on the parent's descriptors
foreign_notify(c) == {d \in Cmds \ {c} : ParentHoldsNotify(d)}
\* a process other than the child of request c holds the write end of its
\* pipe: one that was forked with it and has not terminated, exec or not
OtherHoldsNotify(c) ==
    \E q \in Pids : /\ proc[q].state \in {"forked", "dying", "execd"}
                    /\ c \in proc[q].notif

\* ------------------------------------------------------------------- Init

\* child_process_init (lines 17-22).  Four fields record, for the properties
\* only: cpid the pid fork returned, why the reason the child ended before the
\* exec, reg0 the registry when start_command was entered, alone whether no
\* other request has been started or finished since.
InitCmd == [phase |-> "init", argv0 |-> "prog", clean_on_exit |-> FALSE,
            pid |-> 0, cpid |-> 0, why |-> "none", reg0 |-> <<>>, alone |-> FALSE,
            in |-> 0, out |-> 0, err |-> 0, no_stdin |-> FALSE, no_stdout |-> FALSE,
            stdout_to_stderr |-> FALSE, no_stderr |-> FALSE,
            args |-> <<>>, env_array |-> <<>>]

\* argv_array_clear: the array's strings are freed and the array is
\* initialised again, empty
argv_array_clear(array) == <<>>

\* a request whose args alone are cleared
clear_args_only(r) == [r EXCEPT !.args = argv_array_clear(r.args)]

\* lines 349-350, 536-537 and 563-564: both owned arrays of the request are
\* cleared
clear_owned_arrays(r) ==
    [r EXCEPT !.args = argv_array_clear(r.args),
              !.env_array = argv_array_clear(r.env_array)]

\* the environment entries a caller pushes onto env_array
OwnedEnv == <<"K=v">>
InitNotify == [created |-> FALSE, byte |-> FALSE]

\* a thread outside any call: last, ret and wst are what the call that just
\* returned was, returned and waited for
InitThr == [pc |-> "idle", cmd |-> 0, wfrom |-> "none", pid |-> 0, code |-> 0,
            failed_errno |-> NOERR, p |-> NULL, pp |-> NULL, clean_me |-> NULL,
            errno |-> NOERR, eintr |-> 0, last |-> "none", ret |-> 0,
            wst |-> NoStatus,
            need_in |-> FALSE, need_out |-> FALSE, need_err |-> FALSE]
\* what descriptors 0, 1 and 2 of a process lead to: the parent's own stdin,
\* stdout and stderr (0, 1, 2), /dev/null, or a descriptor of a request
DevNull == -1
OwnStdio == [in |-> 0, out |-> 1, err |-> 2]
\* no diagnostic written
NoDiag == -2
\* stdio is where 0, 1 and 2 lead once the child has run its redirects,
\* child_err the descriptor its diagnostics are written to ("dup": a copy of
\* the stderr it was forked with; "2": descriptor 2 as it is at the time),
\* diag where the diagnostic it wrote went, notif the requests of other
\* threads whose notify_pipe[1] it was forked with
NoProcess == [state |-> "free", cmd |-> 0, status |-> NoStatus, inh |-> <<>>,
              fds |-> {}, drop |-> {},
              stdio |-> OwnStdio, child_err |-> "2", diag |-> NoDiag,
              notif |-> {}]
\* the descriptors process q holds: those it was forked with until it has run
\* its redirects, those it kept afterwards, none once it has terminated
ChildFds(q) ==
    CASE proc[q].state = "forked" -> proc[q].fds
      [] proc[q].state \in {"execd", "dying", "task"} -> proc[q].fds \ proc[q].drop
      [] OTHER -> {}
InitFds == [open |-> {}, closed |-> <<>>]
\* a struct async before start_async, and what became of its task: mode is
\* the build ("thread", or "process" with NO_PTHREADS), task "none",
\* "running", "returned" or "died", value what the task function returned
\* the threads run-command.c tells apart: the one that calls start_async and
\* the one that runs the task
DieThreads == {"main", "task"}
\* main_thread_set is the static of line 598; die_counter the value of the
\* key async_die_counter in each thread (NULL is FALSE); dying the flag of the
\* default die_is_recursing; unwinding the threads inside die(); dies and
\* last_die the calls of die() so far and what the last one was told
InitAsync == [mode |-> "thread", phase |-> "init", in |-> 0, out |-> 0,
              need_in |-> FALSE, need_out |-> FALSE, proc_in |-> -1, proc_out |-> -1,
              pid |-> 0, task |-> "none", value |-> 0, last |-> "none", ret |-> 0,
              why |-> "none",
              main_thread_set |-> FALSE,
              die_counter |-> [w \in DieThreads |-> FALSE],
              dying |-> FALSE, unwinding |-> {}, dies |-> 0,
              last_die |-> [who |-> "none", recursing |-> FALSE, first |-> FALSE]]

\* no function applied yet
NoCall == [fn |-> "none", arg |-> <<>>, res |-> <<>>]

\* no child followed step by step
NoChild == [pc |-> "none", r |-> <<>>, fd |-> OwnStdio, cwd |-> "", environ |-> "",
            log |-> <<>>]

\* the process that calls start_async and the child it forks
Images == {"parent", "task"}

\* lines 637-643 and 28, 53: a process whose atexit list and registry are empty
NoImage == [state |-> "none", libc |-> <<>>, hdlrs |-> <<>>,
            git_atexit_installed |-> FALSE,
            installed_child_cleanup_handler |-> FALSE, sigchain |-> FALSE,
            children_to_clean |-> {}, own |-> {}, forked |-> "no",
            enomem |-> FALSE, log |-> <<>>, termed |-> {}]

\* no process followed to its exit
NoImages == [p \in Images |-> NoImage]

InitCommon ==
    /\ alive = "running"
    /\ children_to_clean = NULL
    /\ heap = [n \in Nodes |-> FreedNode]
    /\ installed_child_cleanup_handler = FALSE
    /\ sigchain = {}
    /\ cmd = [c \in Cmds |-> InitCmd]
    /\ notify = [c \in Cmds |-> InitNotify]
    /\ proc = [q \in Pids |-> NoProcess]
    /\ kills = <<>>
    /\ launches = 0
    /\ fds = InitFds

\* one thread, the primary single-threaded flow, in an environment where
\* pipe(notify_pipe) succeeds; each command is started with a pipe for its
\* stdout and a descriptor of the caller for its stderr
Init ==
    /\ InitCommon
    /\ call = NoCall
    /\ child = NoChild
    /\ image = NoImages
    /\ async = InitAsync
    /\ thr = [t \in Threads |-> IF t = 1 THEN InitThr ELSE [InitThr EXCEPT !.pc = "off"]]
    /\ env = [notify_pipe_fails |-> FALSE, files |-> Programs,
              codes |-> ProgramExitCodes, signals |-> DeathSignals,
              requests |-> [t \in Threads |-> Cmds],
              common |-> CommonSignals, disposition |-> "default",
              streams |-> {[Inherit EXCEPT !.out = -1, !.err = 3]},
              clean |-> BOOLEAN]

\* two threads calling into the core concurrently, each launching a program
\* that exists on a request of its own
InitMT ==
    /\ InitCommon
    /\ call = NoCall
    /\ child = NoChild
    /\ image = NoImages
    /\ async = InitAsync
    /\ thr = [t \in Threads |-> InitThr]
    /\ env = [notify_pipe_fails |-> FALSE, files |-> {"prog"},
              codes |-> {0}, signals |-> {SIGTERM},
              requests |-> [t \in Threads |-> {t}],
              common |-> {SIGTERM}, disposition |-> "default",
              streams |-> {Inherit}, clean |-> {TRUE}]

\* one thread, in a process that was started with the common signals ignored
\* (SIG_IGN inherited, as under nohup): what sigchain_pop restores is SIG_IGN,
\* raise(sig) has no effect and the handler returns to what it interrupted
InitSig ==
    /\ InitCommon
    /\ call = NoCall
    /\ child = NoChild
    /\ image = NoImages
    /\ async = InitAsync
    /\ thr = [t \in Threads |-> IF t = 1 THEN InitThr ELSE [InitThr EXCEPT !.pc = "off"]]
    /\ env = [notify_pipe_fails |-> FALSE, files |-> {"prog"},
              codes |-> {0}, signals |-> {SIGTERM},
              requests |-> [t \in Threads |-> Cmds],
              common |-> {SIGINT}, disposition |-> "ignore",
              streams |-> {Inherit}, clean |-> BOOLEAN]

\* one thread, in an environment where pipe(notify_pipe) can fail (line 363:
\* notify_pipe[0] = notify_pipe[1] = -1) while the fork succeeds
InitNoPipe ==
    /\ InitCommon
    /\ call = NoCall
    /\ child = NoChild
    /\ image = NoImages
    /\ async = InitAsync
    /\ thr = [t \in Threads |-> IF t = 1 THEN InitThr ELSE [InitThr EXCEPT !.pc = "off"]]
    /\ env = [notify_pipe_fails |-> TRUE, files |-> {"prog", "missing"},
              codes |-> {0}, signals |-> {SIGTERM},
              requests |-> [t \in Threads |-> Cmds],
              common |-> {SIGTERM}, disposition |-> "default",
              streams |-> {Inherit}, clean |-> BOOLEAN]

\* one thread launching, one request at a time, with every combination of
\* inherited, piped and caller-supplied streams
InitFd ==
    /\ InitCommon
    /\ call = NoCall
    /\ child = NoChild
    /\ image = NoImages
    /\ async = InitAsync
    /\ thr = [t \in Threads |-> IF t = 1 THEN InitThr ELSE [InitThr EXCEPT !.pc = "off"]]
    /\ env = [notify_pipe_fails |-> FALSE, files |-> {"prog", "noexec"},
              codes |-> {0}, signals |-> {SIGTERM},
              requests |-> [t \in Threads |-> {1}],
              common |-> {SIGINT}, disposition |-> "default",
              streams |-> PlainStreams \cup FlaggedStreams, clean |-> {TRUE}]

\* ------------------------------------------------- wait_or_whine's arithmetic

\* what waitpid(pid, &status, 0) handed back: the child's status, a failure
\* (waiting < 0, errno not EINTR) or another pid (waiting != pid)
WaitFailed == [kind |-> "failed", val |-> 0]
WaitOther == [kind |-> "otherpid", val |-> 0]

\* wait_or_whine returning the wait status itself where line 270 takes
\* WEXITSTATUS(status)
wait_code_raw_status(w) ==
    CASE w.kind = "failed" -> -1
      [] w.kind = "otherpid" -> -1
      [] w.kind = "signaled" -> w.val + 128
      [] w.kind = "exited" -> IF w.val = EXIT_ENOENT THEN -1 ELSE w.val * 256

\* wait_or_whine without line 268: WTERMSIG(status) returned as it is
wait_code_termsig(w) ==
    CASE w.kind = "failed" -> -1
      [] w.kind = "otherpid" -> -1
      [] w.kind = "signaled" -> w.val
      [] w.kind = "exited" -> IF w.val = EXIT_ENOENT THEN -1 ELSE w.val

\* the value wait_or_whine returns (code) for a wait outcome
wait_code(w) ==
    CASE w.kind = "failed" -> -1
      [] w.kind = "otherpid" -> -1
      [] w.kind = "signaled" -> w.val + 128
      [] w.kind = "exited" -> IF w.val = EXIT_ENOENT THEN -1 ELSE w.val

\* wait_or_whine reporting ENOENT for every failing exit status, not only 127
wait_errno_not_found(w) ==
    CASE w.kind = "failed" -> "ECHILD"
      [] w.kind = "otherpid" -> NOERR
      [] w.kind = "signaled" -> NOERR
      [] w.kind = "exited" -> IF w.val # 0 THEN "ENOENT" ELSE NOERR

\* wait_or_whine without lines 275-278: exit status 127 left as it is
wait_errno_plain(w) ==
    CASE w.kind = "failed" -> "ECHILD"
      [] w.kind = "otherpid" -> NOERR
      [] w.kind = "signaled" -> NOERR
      [] w.kind = "exited" -> NOERR

\* the errno wait_or_whine leaves (failed_errno) for a wait outcome
wait_errno(w) ==
    CASE w.kind = "failed" -> "ECHILD"
      [] w.kind = "otherpid" -> NOERR
      [] w.kind = "signaled" -> NOERR
      [] w.kind = "exited" -> IF w.val = EXIT_ENOENT THEN "ENOENT" ELSE NOERR

\* ------------------------------------------------------------ start_command

Running(t) == alive = "running" /\ thr[t].pc # "off"

\* The caller is done with the request its last call failed to start or has
\* finished; the struct is initialised again (child_process_init) for
\* another launch.
Released(t) ==
    {c \in Cmds : c = thr[t].cmd /\ cmd[c].phase \in {"failed", "finished", "nohook"}}
CmdReleased(t) == [c \in Cmds |-> IF c \in Released(t) THEN InitCmd ELSE cmd[c]]
\* the requests as a call on request c finds them
CmdAtCall(t, c) ==
    [d \in Cmds |-> IF d = c THEN CmdReleased(t)[d]
                    ELSE [CmdReleased(t)[d] EXCEPT !.alone = FALSE]]
\* the request a thread fills next: the first one not in use
NextRequest(t) ==
    LET free == {c \in env.requests[t] : CmdReleased(t)[c].phase = "init"}
    IN {c \in free : \A d \in free : c <= d}
NotifyReleased(t) == [c \in Cmds |-> IF c \in Released(t) THEN InitNotify ELSE notify[c]]

\* a call begins / returns in thread t
Enter(t, c, pc, wfrom, pid) ==
    [thr[t] EXCEPT !.pc = pc, !.cmd = c, !.wfrom = wfrom, !.pid = pid,
                   !.last = "none", !.ret = 0, !.wst = NoStatus]
Return(t, last, ret, errno) ==
    [thr[t] EXCEPT !.pc = "idle", !.wfrom = "none", !.pid = 0, !.code = 0,
                   !.failed_errno = NOERR, !.p = NULL, !.pp = NULL,
                   !.clean_me = NULL, !.eintr = 0, !.errno = errno,
                   !.last = last, !.ret = ret]

\* close(fd) for each fd of calls, in order: the descriptor leaves the
\* parent's table and the call is recorded; close(-1) changes nothing
RECURSIVE Positive(_)
Positive(calls) ==
    IF calls = <<>> THEN <<>>
    ELSE (IF Head(calls) > 0 THEN <<Head(calls)>> ELSE <<>>) \o Positive(Tail(calls))
close(f, calls) ==
    [open |-> f.open \ {calls[i] : i \in 1 .. Len(calls)},
     closed |-> f.closed \o Positive(calls)]

\* close_pair closing its second descriptor once more
close_pair_again(fd) == <<fd[1], fd[2], fd[2]>>

\* lines 82-86
close_pair(fd) == <<fd[1], fd[2]>>

\* "else if (cmd->in) close(cmd->in);" without the close
close_given_never(fd) == <<>>

\* "else if (cmd->in) close(cmd->in);" and its like for out and err
close_given(fd) == IF fd # 0 THEN <<fd>> ELSE <<>>

\* lines 524-535 with only the first end of a pipe closed
close_failed_one_end(need, pair, given) ==
    IF need THEN <<pair[1]>> ELSE close_given(given)

\* lines 524-535 (and 322-325, 336-343): the close calls for one stream when
\* the launch failed
close_failed(need, pair, given) ==
    IF need THEN close_pair(pair) ELSE close_given(given)

\* lines 542-555 with the parent's own end closed instead of the child's
close_started_own_end(need, pair, end, given) ==
    IF need THEN <<pair[3 - end]>> ELSE close_given(given)

\* lines 542-555: the close calls for one stream when the child runs
close_started(need, pair, end, given) ==
    IF need THEN <<pair[end]>> ELSE close_given(given)

\* the descriptors of r that are the caller's own
Given(c, r) ==
    {Fd(c, k) : k \in {r.in, r.out, r.err} \cap (1 .. 3)}

\* the caller fills the stream fields of request c from s
WithStreams(c, s) ==
    [in |-> IF s.in > 0 THEN Fd(c, s.in) ELSE s.in,
     out |-> IF s.out > 0 THEN Fd(c, s.out) ELSE s.out,
     err |-> IF s.err > 0 THEN Fd(c, s.err) ELSE s.err,
     no_stdin |-> s.no_stdin, no_stdout |-> s.no_stdout,
     stdout_to_stderr |-> s.stdout_to_stderr, no_stderr |-> s.no_stderr]

\* lines 305-355: the pipes start_command creates for request c, whose stream
\* fields are r, when the pipe() call for stream fail (if made) fails: the
\* fields as they are left, the need_ flags, the descriptors opened and not
\* closed again, and the close() calls made
PlanStreams(c, r, fail) ==
    LET need_in == ~r.no_stdin /\ r.in < 0
        need_out == ~r.no_stdout /\ ~r.stdout_to_stderr /\ r.out < 0
        need_err == ~r.no_stderr /\ r.err < 0
        in1 == IF need_in THEN fdin(c)[2] ELSE r.in
        out1 == IF need_out THEN fdout(c)[1] ELSE r.out
        err1 == IF need_err THEN fderr(c)[1] ELSE r.err
        pair_in == IF need_in THEN close_pair(fdin(c)) ELSE <<>>
        pair_out == IF need_out THEN close_pair(fdout(c)) ELSE <<>>
        undo_in == close_failed(need_in, fdin(c), r.in)
        undo_out == close_failed(need_out, fdout(c), r.out)
    IN  CASE need_in /\ fail = "in" ->
               [ok |-> FALSE, in |-> r.in, out |-> r.out, err |-> r.err,
                need_in |-> TRUE, need_out |-> FALSE, need_err |-> FALSE,
                pipes |-> <<>>,
                calls |-> IF r.out > 0 THEN <<r.out>> ELSE <<>>]
          [] need_out /\ fail = "out" ->
               [ok |-> FALSE, in |-> in1, out |-> r.out, err |-> r.err,
                need_in |-> need_in, need_out |-> TRUE, need_err |-> FALSE,
                pipes |-> pair_in,
                calls |-> undo_in]
          [] need_err /\ fail = "err" ->
               [ok |-> FALSE, in |-> in1, out |-> out1, err |-> r.err,
                need_in |-> need_in, need_out |-> need_out, need_err |-> TRUE,
                pipes |-> pair_in \o pair_out,
                calls |-> undo_in \o undo_out]
          [] OTHER ->
               [ok |-> TRUE, in |-> in1, out |-> out1, err |-> err1,
                need_in |-> need_in, need_out |-> need_out, need_err |-> need_err,
                pipes |-> pair_in \o pair_out
                          \o (IF need_err THEN close_pair(fderr(c)) ELSE <<>>),
                calls |-> <<>>]

\* the pipe() call that fails is one start_command makes for these fields
CanFail(r, fail) ==
    \/ fail = "none"
    \/ fail = "in" /\ ~r.no_stdin /\ r.in < 0
    \/ fail = "out" /\ ~r.no_stdout /\ ~r.stdout_to_stderr /\ r.out < 0
    \/ fail = "err" /\ ~r.no_stderr /\ r.err < 0

\* the caller is done with the descriptors of the requests it releases
FdsReleased(t) ==
    LET gone == UNION {FdsOf(c) : c \in Released(t)}
        RECURSIVE Kept(_)
        Kept(q) == IF q = <<>> THEN <<>>
                   ELSE (IF Head(q) \in gone THEN <<>> ELSE <<Head(q)>>) \o Kept(Tail(q))
    IN [open |-> fds.open \ gone, closed |-> Kept(fds.closed)]

\* lines 288-364: entry, stream planning (all pipes created, or fail_pipe)
\* and pipe(notify_pipe).  The request's fields are the caller's input.
start_command(t, c) ==
    /\ Running(t) /\ thr[t].pc = "idle"
    /\ c \in NextRequest(t)
    /\ launches < MaxLaunches
    /\ launches' = launches + 1
    /\ \E file \in env.files, clean \in env.clean, s \in env.streams,
          fail \in PipeFailures,
          notify_ok \in {TRUE} \cup {~env.notify_pipe_fails} :
        LET r == WithStreams(c, s)
            plan == PlanStreams(c, r, fail)
            before == [open |-> FdsReleased(t).open \cup Given(c, s)
                                    \cup {plan.pipes[i] : i \in 1 .. Len(plan.pipes)},
                       closed |-> FdsReleased(t).closed]
            filled == [CmdAtCall(t, c) EXCEPT
                          ![c].argv0 = file, ![c].clean_on_exit = clean,
                          ![c].reg0 = RegSeq, ![c].alone = TRUE,
                          ![c].in = plan.in, ![c].out = plan.out, ![c].err = plan.err,
                          ![c].no_stdin = r.no_stdin, ![c].no_stdout = r.no_stdout,
                          ![c].stdout_to_stderr = r.stdout_to_stderr,
                          ![c].no_stderr = r.no_stderr,
                          ![c].args = <<file>>, ![c].env_array = OwnedEnv]
            entered == [Enter(t, c, "fork", "none", 0) EXCEPT
                          !.need_in = plan.need_in, !.need_out = plan.need_out,
                          !.need_err = plan.need_err]
        IN
        /\ CanFail(r, fail)
        /\ fds' = close(before, plan.calls)
        /\ IF plan.ok
           THEN /\ cmd' = [filled EXCEPT ![c].phase = "starting"]
                /\ notify' = [NotifyReleased(t) EXCEPT ![c].created = notify_ok]
                /\ thr' = [thr EXCEPT ![t] = entered]
           ELSE \* fail_pipe: errno = failed_errno; return -1
                /\ notify_ok
                /\ cmd' = [filled EXCEPT ![c] = clear_owned_arrays(
                              [filled[c] EXCEPT !.phase = "failed", !.why = "pipe"])]
                /\ notify' = NotifyReleased(t)
                /\ thr' = [thr EXCEPT ![t] =
                       [entered EXCEPT !.pc = "idle",
                            !.last = "start", !.ret = -1, !.errno = "EMFILE"]]
    /\ UNCHANGED <<alive, children_to_clean, heap, installed_child_cleanup_handler,
                   sigchain, proc, kills, env, async, call, child, image>>

\* line 447 without the test of cmd->clean_on_exit
marks_child_unconditionally(pid, clean_on_exit) == pid >= 0

\* the statement after the fork: line 447, whether mark_child_for_cleanup runs
marks_child(pid, clean_on_exit) == pid >= 0 /\ clean_on_exit

\* lines 386-415: the pipe ends the child closes after its dup2 calls
ChildCloses(t, c) ==
    (IF ~cmd[c].no_stdin /\ thr[t].need_in THEN {fdin(c)[2]} ELSE {})
    \cup (IF ~cmd[c].no_stderr /\ thr[t].need_err THEN {fderr(c)[1]} ELSE {})
    \cup (IF ~cmd[c].no_stdout /\ ~cmd[c].stdout_to_stderr /\ thr[t].need_out
          THEN {fdout(c)[1]} ELSE {})

\* lines 386-415: where descriptors 0, 1 and 2 of the child lead after its
\* redirects: stdin first, then stderr, then stdout (dup2(2, 1) copies the
\* stderr already redirected)
ChildStdio(t, c) ==
    LET in == IF cmd[c].no_stdin THEN DevNull
              ELSE IF thr[t].need_in THEN fdin(c)[1]
              ELSE IF cmd[c].in # 0 THEN cmd[c].in ELSE OwnStdio.in
        err == IF cmd[c].no_stderr THEN DevNull
               ELSE IF thr[t].need_err THEN fderr(c)[2]
               ELSE IF cmd[c].err > 1 THEN cmd[c].err ELSE OwnStdio.err
        out == IF cmd[c].no_stdout THEN DevNull
               ELSE IF cmd[c].stdout_to_stderr THEN err
               ELSE IF thr[t].need_out THEN fdout(c)[2]
               ELSE IF cmd[c].out > 1 THEN cmd[c].out ELSE OwnStdio.out
    IN [in |-> in, out |-> out, err |-> err]

\* lines 373-376: child_err = dup(2) when stderr is suppressed or a pipe,
\* else it stays 2
child_err(t, c) == IF cmd[c].no_stderr \/ thr[t].need_err THEN "dup" ELSE "2"

\* lines 226-235: where die_child and error_child of process q write, once
\* the redirects are done
Diagnostic(q) ==
    IF proc[q].child_err = "dup" THEN OwnStdio.err ELSE proc[q].stdio.err

\* lines 366-367 and 444-448 in the parent: cmd->pid = GIT_FORK()
GIT_FORK(t) ==
    /\ Running(t) /\ thr[t].pc = "fork"
    /\ LET c == thr[t].cmd IN
       \/ \* fork failed
          /\ cmd' = [cmd EXCEPT ![c].pid = -1, ![c].why = "fork"]
          /\ thr' = [thr EXCEPT ![t].pc = "read_notify", ![t].errno = "EAGAIN",
                                ![t].failed_errno = "EAGAIN"]
          /\ proc' = proc
       \/ \E q \in Pids, inh \in InheritedLists :
          /\ proc[q].state = "free"
          /\ proc' = [proc EXCEPT ![q] =
                 [state |-> "forked", cmd |-> c, status |-> NoStatus, inh |-> inh,
                  fds |-> fds.open, drop |-> ChildCloses(t, c),
                  stdio |-> ChildStdio(t, c), child_err |-> child_err(t, c),
                  diag |-> NoDiag, notif |-> foreign_notify(c)]]
          /\ cmd' = [cmd EXCEPT ![c].pid = q, ![c].cpid = q]
          /\ thr' = [thr EXCEPT
                 ![t].pc = IF marks_child(q, cmd[c].clean_on_exit)
                           THEN "mark_link" ELSE "read_notify",
                 ![t].failed_errno = thr[t].errno]
    /\ UNCHANGED <<alive, children_to_clean, heap, installed_child_cleanup_handler,
                   sigchain, notify, kills, env, launches, fds, async, call, child, image>>

\* ---------------------------------------------------- mark_child_for_cleanup

\* lines 55-57: p = xmalloc; p->pid = pid; p->next = children_to_clean
mark_link(t) ==
    /\ Running(t) /\ thr[t].pc = "mark_link"
    /\ FreeNodes # {}
    /\ heap' = [heap EXCEPT ![xmalloc] =
           [pid |-> cmd[thr[t].cmd].pid, next |-> children_to_clean, used |-> TRUE]]
    /\ thr' = [thr EXCEPT ![t].pc = "mark_publish", ![t].p = xmalloc]
    /\ UNCHANGED <<alive, children_to_clean, installed_child_cleanup_handler,
                   sigchain, cmd, notify, proc, kills, env, launches, fds, async, call, child, image>>

\* line 58: children_to_clean = p
mark_publish(t) ==
    /\ Running(t) /\ thr[t].pc = "mark_publish"
    /\ children_to_clean' = thr[t].p
    /\ thr' = [thr EXCEPT ![t].pc = "mark_install"]
    /\ UNCHANGED <<alive, heap, installed_child_cleanup_handler,
                   sigchain, cmd, notify, proc, kills, env, launches, fds, async, call, child, image>>

\* lines 60-64: install the exit and signal handlers once
mark_install(t) ==
    /\ Running(t) /\ thr[t].pc = "mark_install"
    /\ installed_child_cleanup_handler' = TRUE
    /\ sigchain' = IF installed_child_cleanup_handler THEN sigchain ELSE CommonSignals
    /\ thr' = [thr EXCEPT ![t].pc = "read_notify", ![t].p = NULL]
    /\ UNCHANGED <<alive, children_to_clean, heap, cmd, notify, proc, kills, env, launches, fds, async, call, child, image>>

\* lines 457-466: close(notify_pipe[1]); read(notify_pipe[0], ..., 1), which
\* returns when a byte is there or when no process holds the write end any
\* more.  Nothing reads from the pipe afterwards, so who else holds it is
\* forgotten.
read_notify(t) ==
    /\ Running(t) /\ thr[t].pc = "read_notify"
    /\ LET c == thr[t].cmd IN
       /\ \/ ~notify[c].created
          \/ notify[c].byte
          \/ ~ChildHoldsNotify(c) /\ ~OtherHoldsNotify(c)
       /\ IF notify[c].created /\ notify[c].byte
          THEN thr' = [thr EXCEPT ![t].pc = "waitpid", ![t].wfrom = "start",
                                  ![t].pid = cmd[c].pid]
          ELSE thr' = [thr EXCEPT ![t].pc = "start_ret"]
       /\ proc' = [q \in Pids |-> [proc[q] EXCEPT !.notif = @ \ {c}]]
    /\ UNCHANGED <<alive, children_to_clean, heap, installed_child_cleanup_handler,
                   sigchain, cmd, notify, kills, env, launches, fds, async, call, child, image>>

\* lines 467 and 523-557: close(notify_pipe[0]) and the two returns
start_ret(t) ==
    /\ Running(t) /\ thr[t].pc = "start_ret"
    /\ LET c == thr[t].cmd IN
       IF cmd[c].pid < 0
       THEN /\ cmd' = [cmd EXCEPT ![c] = clear_owned_arrays(
                              [cmd[c] EXCEPT !.phase = "failed"])]
            /\ thr' = [thr EXCEPT ![t] = Return(t, "start", -1, thr[t].failed_errno)]
            /\ fds' = close(fds,
                     close_failed(thr[t].need_in, fdin(c), cmd[c].in)
                     \o close_failed(thr[t].need_out, fdout(c), cmd[c].out)
                     \o close_failed(thr[t].need_err, fderr(c), cmd[c].err))
       ELSE /\ cmd' = [cmd EXCEPT ![c].phase = "started"]
            /\ thr' = [thr EXCEPT ![t] = Return(t, "start", 0, thr[t].errno)]
            /\ fds' = close(fds,
                     close_started(thr[t].need_in, fdin(c), 1, cmd[c].in)
                     \o close_started(thr[t].need_out, fdout(c), 2, cmd[c].out)
                     \o close_started(thr[t].need_err, fderr(c), 2, cmd[c].err))
    /\ UNCHANGED <<alive, children_to_clean, heap, installed_child_cleanup_handler,
                   sigchain, notify, proc, kills, env, launches, async, call, child, image>>

\* ------------------------------------------------------------ wait_or_whine

\* lines 560-562: finish_command calls wait_or_whine(cmd->pid, ...)
finish_command(t, c) ==
    /\ Running(t) /\ thr[t].pc = "idle"
    /\ c \in env.requests[t]
    /\ cmd[c].phase = "started"
    /\ cmd' = [CmdAtCall(t, c) EXCEPT ![c].phase = "finishing"]
    /\ notify' = NotifyReleased(t)
    /\ thr' = [thr EXCEPT ![t] = Enter(t, c, "waitpid", "finish", cmd[c].pid)]
    /\ fds' = FdsReleased(t)
    /\ UNCHANGED <<alive, children_to_clean, heap, installed_child_cleanup_handler,
                   sigchain, proc, kills, env, launches, async, call, child, image>>

\* wait_or_whine returning early, before line 282, when waitpid went wrong
clears_child_on_success(w) == w.kind \notin {"failed", "otherpid"}

\* line 282: clear_child_for_cleanup(pid) is called whatever waitpid returned
clears_child(w) == TRUE

\* lines 247-280 once waitpid has handed back w: code and failed_errno are
\* set and clear_child_for_cleanup(pid) is entered (pp = &children_to_clean)
Waited(t, w) ==
    thr' = [thr EXCEPT ![t].pc = IF clears_child(w) THEN "clear_load" ELSE "wait_ret",
                       ![t].code = wait_code(w),
                       ![t].failed_errno = wait_errno(w), ![t].pp = NULL,
                       ![t].eintr = 0, ![t].wst = w]

\* the loop of line 251 left on the first failure of waitpid
wait_retries_never(waiting, errno) == FALSE

\* line 251: the condition on which waitpid is called again
wait_retries(waiting, errno) == waiting < 0 /\ errno = "EINTR"

\* lines 251-252: waitpid fails with EINTR and is called again (were it not,
\* lines 254-256 would take the failure: failed_errno = errno, code -1)
waitpid_EINTR(t) ==
    /\ Running(t) /\ thr[t].pc = "waitpid"
    /\ thr[t].eintr < MaxEINTR
    /\ IF wait_retries(-1, "EINTR")
       THEN thr' = [thr EXCEPT ![t].eintr = thr[t].eintr + 1, ![t].errno = "EINTR"]
       ELSE thr' = [thr EXCEPT ![t].pc = "clear_load", ![t].code = -1,
                               ![t].errno = "EINTR", ![t].failed_errno = "EINTR",
                               ![t].pp = NULL, ![t].eintr = 0,
                               ![t].wst = [kind |-> "interrupted", val |-> 0]]
    /\ UNCHANGED <<alive, children_to_clean, heap, installed_child_cleanup_handler,
                   sigchain, cmd, notify, proc, kills, env, launches, fds, async, call, child, image>>

\* line 251: waitpid returns the pid: the terminated child is reaped
waitpid_reaps(t) ==
    /\ Running(t) /\ thr[t].pc = "waitpid"
    /\ proc[thr[t].pid].state = "zombie"
    /\ proc[thr[t].pid].cmd = thr[t].cmd
    /\ Waited(t, proc[thr[t].pid].status)
    /\ proc' = [proc EXCEPT ![thr[t].pid] =
           NoProcess]
    /\ UNCHANGED <<alive, children_to_clean, heap, installed_child_cleanup_handler,
                   sigchain, cmd, notify, kills, env, launches, fds, async, call, child, image>>

\* lines 254-258: waitpid fails for good (ECHILD: the terminated child's
\* status was discarded, as with SIGCHLD ignored) or returns another pid.
\* Either way the child is gone from the process table.
waitpid_fails(t) ==
    /\ Running(t) /\ thr[t].pc = "waitpid"
    /\ proc[thr[t].pid].state = "zombie"
    /\ proc[thr[t].pid].cmd = thr[t].cmd
    /\ \E w \in {WaitFailed, WaitOther} : Waited(t, w)
    /\ proc' = [proc EXCEPT ![thr[t].pid] =
           NoProcess]
    /\ UNCHANGED <<alive, children_to_clean, heap, installed_child_cleanup_handler,
                   sigchain, cmd, notify, kills, env, launches, fds, async, call, child, image>>

\* the process has ended: its threads and its requests are no more
ProcessGone ==
    /\ thr' = [t \in Threads |-> [InitThr EXCEPT !.pc = "off"]]
    /\ cmd' = [c \in Cmds |-> InitCmd]
    /\ notify' = [c \in Cmds |-> InitNotify]
    /\ fds' = InitFds
    /\ UNCHANGED <<installed_child_cleanup_handler, env, launches, async, call, child, image>>

\* The program has read, written or freed a node that was already freed:
\* undefined behaviour, after which nothing more is known of the process.
Undefined ==
    /\ alive' = "undefined"
    /\ ProcessGone
    /\ UNCHANGED <<children_to_clean, heap, sigchain, proc, kills>>

\* --------------------------------------------------- clear_child_for_cleanup

\* the pointer refers to a node that has been freed
Dangling(n) == n # NULL /\ ~heap[n].used

\* *pp, with pp = NULL standing for &children_to_clean
Deref(pp) == IF pp = NULL THEN children_to_clean ELSE heap[pp].next

\* lines 71-72: loop test and clean_me = *pp
clear_load(t) ==
    /\ Running(t) /\ thr[t].pc = "clear_load"
    /\ IF Dangling(thr[t].pp) THEN Undefined
       ELSE /\ thr' = [thr EXCEPT ![t].clean_me = Deref(thr[t].pp),
                                  ![t].pc = IF Deref(thr[t].pp) = NULL
                                            THEN "wait_ret" ELSE "clear_test"]
            /\ UNCHANGED <<alive, children_to_clean, heap, installed_child_cleanup_handler,
                           sigchain, cmd, notify, proc, kills, env, launches, fds, async, call, child, image>>

\* line 74 with the comparison inverted
clear_matches_inverted(node_pid, pid) == node_pid # pid

\* line 74 removing the first node whatever its pid
clear_matches_first(node_pid, pid) == TRUE

\* line 74: the node is the one to remove
clear_matches(node_pid, pid) == node_pid = pid

\* lines 74-75 and the loop step: unlink the node, or move on to the next
clear_test(t) ==
    /\ Running(t) /\ thr[t].pc = "clear_test"
    /\ LET n == thr[t].clean_me IN
       IF Dangling(n) \/ Dangling(thr[t].pp) THEN Undefined
       ELSE /\ IF clear_matches(heap[n].pid, thr[t].pid)
               THEN /\ IF thr[t].pp = NULL
                       THEN /\ children_to_clean' = heap[n].next
                            /\ heap' = heap
                       ELSE /\ heap' = [heap EXCEPT ![thr[t].pp].next = heap[n].next]
                            /\ children_to_clean' = children_to_clean
                    /\ thr' = [thr EXCEPT ![t].pc = "clear_free"]
               ELSE /\ thr' = [thr EXCEPT ![t].pp = n, ![t].pc = "clear_load"]
                    /\ UNCHANGED <<children_to_clean, heap>>
            /\ UNCHANGED <<alive, installed_child_cleanup_handler,
                           sigchain, cmd, notify, proc, kills, env, launches, fds, async, call, child, image>>

\* lines 76-77: free(clean_me); return
clear_free(t) ==
    /\ Running(t) /\ thr[t].pc = "clear_free"
    /\ IF Dangling(thr[t].clean_me) THEN Undefined
       ELSE /\ heap' = [heap EXCEPT ![thr[t].clean_me] = FreedNode]
            /\ thr' = [thr EXCEPT ![t].pc = "wait_ret"]
            /\ UNCHANGED <<alive, children_to_clean, installed_child_cleanup_handler,
                           sigchain, cmd, notify, proc, kills, env, launches, fds, async, call, child, image>>

\* lines 284-285: errno = failed_errno; return code -- to start_command
\* (lines 463-465: failed_errno = errno; cmd->pid = -1) or to finish_command
\* (lines 563-565: the arrays are cleared and code is returned)
wait_ret(t) ==
    /\ Running(t) /\ thr[t].pc = "wait_ret"
    /\ LET c == thr[t].cmd IN
       IF thr[t].wfrom = "start"
       THEN /\ cmd' = [cmd EXCEPT ![c].pid = -1]
            /\ thr' = [thr EXCEPT ![t].pc = "start_ret", ![t].errno = thr[t].failed_errno,
                                  ![t].pp = NULL, ![t].clean_me = NULL]
       ELSE /\ cmd' = [cmd EXCEPT ![c] = clear_owned_arrays(
                              [cmd[c] EXCEPT !.phase = "finished"])]
            /\ thr' = [thr EXCEPT ![t] =
                   Return(t, "finish", thr[t].code, thr[t].failed_errno)]
    /\ UNCHANGED <<alive, children_to_clean, heap, installed_child_cleanup_handler,
                   sigchain, notify, proc, kills, env, launches, fds, async, call, child, image>>

\* ------------------------------------------------------- cleanup_children

\* cleanup_children with an if where line 33 has its while: only the first
\* node is unlinked, signalled and freed
cleanup_children_first_only(sig, after) ==
    /\ kills' = kills \o KillLog(proc, SubSeq(RegSeq, 1, IF RegSeq = <<>> THEN 0 ELSE 1),
                                  sig, "parent") \o after
    /\ proc' = KillAll(proc, SubSeq(RegSeq, 1, IF RegSeq = <<>> THEN 0 ELSE 1), sig)
    /\ heap' = [n \in Nodes |-> IF n = children_to_clean THEN FreedNode ELSE heap[n]]
    /\ children_to_clean' = IF children_to_clean = NULL THEN NULL
                            ELSE heap[children_to_clean].next

\* lines 31-39: every node is unlinked, its pid signalled, the node freed;
\* after is what the caller goes on to call
cleanup_children(sig, after) ==
    /\ kills' = kills \o KillLog(proc, RegSeq, sig, "parent") \o after
    /\ proc' = KillAll(proc, RegSeq, sig)
    /\ heap' = [n \in Nodes |->
           IF \E i \in 1 .. Len(RegNodes) : RegNodes[i] = n
           THEN FreedNode ELSE heap[n]]
    /\ children_to_clean' = NULL

\* lines 44-45 in the other order: raise(sig) before sigchain_pop(sig)
after_cleanup_raise_first(sig) ==
    <<[op |-> "raise", pid |-> 0, sig |-> sig, by |-> "parent", hit |-> "none"],
      [op |-> "sigchain_pop", pid |-> 0, sig |-> sig, by |-> "parent", hit |-> "none"]>>

\* lines 44-45: what the handler calls once cleanup_children has returned
after_cleanup(sig) ==
    <<[op |-> "sigchain_pop", pid |-> 0, sig |-> sig, by |-> "parent", hit |-> "none"],
      [op |-> "raise", pid |-> 0, sig |-> sig, by |-> "parent", hit |-> "none"]>>

\* lines 41-46: a common signal reaches the parent.  With the handler pushed,
\* cleanup_children(sig), sigchain_pop(sig), raise(sig).  Under the default
\* disposition the raised signal then ends the process, as the signal does at
\* once without the handler; where the signal is ignored raise has no effect
\* and the handler returns to the statement it interrupted.
cleanup_children_on_signal(sig) ==
    /\ alive = "running"
    /\ sig \in env.common
    /\ sig \in sigchain \/ env.disposition = "default"
    /\ IF sig \in sigchain /\ ListDangles THEN Undefined
       ELSE /\ IF sig \in sigchain
               THEN /\ cleanup_children(sig, after_cleanup(sig))
                    /\ sigchain' = sigchain \ {sig}
               ELSE UNCHANGED <<kills, proc, heap, children_to_clean, sigchain>>
            /\ IF env.disposition = "default"
               THEN alive' = "killed" /\ ProcessGone
               ELSE UNCHANGED <<alive, thr, cmd, notify,
                                installed_child_cleanup_handler, env, launches, fds, async, call, child, image>>

\* lines 48-51: the process exits; the atexit handler, if registered, runs
cleanup_children_on_exit ==
    /\ alive = "running"
    /\ \A t \in Threads : thr[t].pc \in {"idle", "off"}
    /\ IF installed_child_cleanup_handler /\ ListDangles THEN Undefined
       ELSE /\ IF installed_child_cleanup_handler
               THEN cleanup_children(SIGTERM, <<>>)
               ELSE UNCHANGED <<kills, proc, heap, children_to_clean>>
            /\ alive' = "exited"
            /\ sigchain' = sigchain
            /\ ProcessGone

\* ---------------------------------------------------------------- the child

\* lines 435-442: how the child ends after a failed exec that left errno e:
\* _exit(127) for ENOENT, die_errno (die_child: exit(128)) otherwise
exec_failure_exit(e) ==
    IF e = "ENOENT" THEN [call |-> "_exit", code |-> EXIT_ENOENT]
    ELSE [call |-> "exit", code |-> EXIT_DIE]

\* notify_parent without its write
notify_parent_silent(created) == FALSE

\* lines 216-224: xwrite(child_notifier, "", 1) puts the byte into the pipe
\* when there is one (child_notifier is -1 when pipe(notify_pipe) failed)
notify_parent(created) == created

\* exit(code) begins in the child: the atexit handlers run in reverse order
\* of registration, notify_parent (line 384, lines 216-224) first
ChildExitBegins(q, why, code) ==
    LET c == proc[q].cmd IN
    /\ proc' = [proc EXCEPT ![q].state = "dying", ![q].status = Exited(code),
                            ![q].diag = Diagnostic(q)]
    /\ notify' = [notify EXCEPT ![c].byte = notify_parent(notify[c].created)]
    /\ cmd' = [cmd EXCEPT ![c].why = why]
    /\ kills' = kills

\* lines 429-442 in the child: the program is executed, or the exec fails
child_exec(q) ==
    /\ alive = "running"
    /\ proc[q].state = "forked"
    /\ LET c == proc[q].cmd
           e == sane_execvp(cmd[c].argv0)
       IN IF e = NOERR
          THEN /\ proc' = [proc EXCEPT ![q].state = "execd", ![q].inh = <<>>]
               /\ UNCHANGED <<notify, cmd, kills>>
          ELSE IF exec_failure_exit(e).call = "_exit"
          THEN /\ proc' = [proc EXCEPT ![q].state = "zombie", ![q].inh = <<>>,
                                       ![q].status = Exited(exec_failure_exit(e).code),
                                       ![q].diag = Diagnostic(q)]
               /\ cmd' = [cmd EXCEPT ![c].why = "exec"]
               /\ UNCHANGED <<notify, kills>>
          ELSE ChildExitBegins(q, "exec", exec_failure_exit(e).code)
    /\ UNCHANGED <<alive, children_to_clean, heap, installed_child_cleanup_handler,
                   sigchain, thr, env, launches, fds, async, call, child, image>>

\* lines 418-420 (and dup_devnull, lines 89-97): a fatal error before the
\* exec, die_errno -> die_child -> exit(128)
child_dies_before_exec(q) ==
    /\ alive = "running"
    /\ proc[q].state = "forked"
    /\ ChildExitBegins(q, "cd", EXIT_DIE)
    /\ UNCHANGED <<alive, children_to_clean, heap, installed_child_cleanup_handler,
                   sigchain, thr, env, launches, fds, async, call, child, image>>

\* the rest of exit(128) in the child: the handlers inherited from the parent
\* (cleanup_children_on_exit, lines 48-51, over the child's copy of the
\* registry), then termination
child_exit_completes(q) ==
    /\ alive = "running"
    /\ proc[q].state = "dying"
    /\ kills' = kills \o KillLog(proc, proc[q].inh, SIGTERM, "child")
    /\ proc' = [KillAll(proc, proc[q].inh, SIGTERM) EXCEPT
                   ![q].state = "zombie", ![q].inh = <<>>]
    /\ UNCHANGED <<alive, children_to_clean, heap, installed_child_cleanup_handler,
                   sigchain, cmd, notify, thr, env, launches, fds, async, call, child, image>>

\* the executed program exits with status n
program_exits(q, n) ==
    /\ alive = "running"
    /\ proc[q].state = "execd"
    /\ n \in env.codes
    /\ proc' = [proc EXCEPT ![q].state = "zombie", ![q].status = Exited(n)]
    /\ UNCHANGED <<alive, children_to_clean, heap, installed_child_cleanup_handler,
                   sigchain, cmd, notify, kills, thr, env, launches, fds, async, call, child, image>>

\* the executed program is terminated by a signal from outside
program_signaled(q, s) ==
    /\ alive = "running"
    /\ proc[q].state = "execd"
    /\ s \in env.signals
    /\ proc' = KillProc(proc, q, s)
    /\ UNCHANGED <<alive, children_to_clean, heap, installed_child_cleanup_handler,
                   sigchain, cmd, notify, kills, thr, env, launches, fds, async, call, child, image>>

\* ------------------------------------------------------------------- Next

Next ==
    \/ \E t \in Threads, c \in Cmds : start_command(t, c)
    \/ \E t \in Threads : GIT_FORK(t)
    \/ \E t \in Threads : mark_link(t)
    \/ \E t \in Threads : mark_publish(t)
    \/ \E t \in Threads : mark_install(t)
    \/ \E t \in Threads : read_notify(t)
    \/ \E t \in Threads : start_ret(t)
    \/ \E t \in Threads, c \in Cmds : finish_command(t, c)
    \/ \E t \in Threads : waitpid_EINTR(t)
    \/ \E t \in Threads : waitpid_reaps(t)
    \/ \E t \in Threads : waitpid_fails(t)
    \/ \E t \in Threads : clear_load(t)
    \/ \E t \in Threads : clear_test(t)
    \/ \E t \in Threads : clear_free(t)
    \/ \E t \in Threads : wait_ret(t)
    \/ \E sig \in CommonSignals : cleanup_children_on_signal(sig)
    \/ cleanup_children_on_exit
    \/ \E q \in Pids : child_exec(q)
    \/ \E q \in Pids : child_dies_before_exec(q)
    \/ \E q \in Pids : child_exit_completes(q)
    \/ \E q \in Pids, n \in ProgramExitCodes : program_exits(q, n)
    \/ \E q \in Pids, s \in DeathSignals : program_signaled(q, s)

Spec == Init /\ [][Next]_vars
SpecMT == InitMT /\ [][Next]_vars
SpecSig == InitSig /\ [][Next]_vars
SpecFd == InitFd /\ [][Next]_vars
SpecNoPipe == InitNoPipe /\ [][Next]_vars

\* the steps of wait_or_whine in thread t once waitpid can return: a thread
\* inside the call keeps running, and waitpid returns when the child is a
\* zombie
WaitSteps(t) ==
    \/ waitpid_reaps(t)
    \/ waitpid_fails(t)
    \/ clear_load(t)
    \/ clear_test(t)
    \/ clear_free(t)
    \/ wait_ret(t)
\* the single-threaded flow with a scheduler that lets the thread proceed
SpecWait == Init /\ [][Next]_vars /\ \A t \in Threads : WF_vars(WaitSteps(t))

\* ------------------------------------------------------------------ hooks

\* access(path, X_OK)
access_X_OK(path) == IF path = "hooks/ok" THEN 0 ELSE -1

\* find_hook without the access() test
find_hook_unchecked(path) == <<path>>

\* lines 812-819: the path, or nothing (NULL) when access(path, X_OK) < 0
find_hook(path) == IF access_X_OK(path) < 0 THEN <<>> ELSE <<path>>

\* a child_process as CHILD_PROCESS_INIT leaves its streams
HookStreams_untouched == Inherit

\* lines 833-834: hook.no_stdin = 1; hook.stdout_to_stderr = 1
HookStreams == [Inherit EXCEPT !.no_stdin = TRUE, !.stdout_to_stderr = TRUE]

\* one thread running hooks, one at a time
InitHook ==
    /\ InitCommon
    /\ call = NoCall
    /\ child = NoChild
    /\ image = NoImages
    /\ async = InitAsync
    /\ thr = [t \in Threads |-> IF t = 1 THEN InitThr ELSE [InitThr EXCEPT !.pc = "off"]]
    /\ env = [notify_pipe_fails |-> FALSE, files |-> Hooks,
              codes |-> ProgramExitCodes, signals |-> {SIGTERM},
              requests |-> [t \in Threads |-> {1}],
              common |-> {}, disposition |-> "default",
              streams |-> {HookStreams}, clean |-> {FALSE}]

\* lines 821-837 (run_hook_le and run_hook_with_custom_index, lines 839-867,
\* pass their arguments on to it): find_hook, then run_command (lines
\* 569-575), whose start_command begins here; finish_command follows when it
\* returned 0.  For a hook that is not found the request records the path
\* that was asked for.
run_hook_ve(t, c, path) ==
    IF find_hook(path) = <<>>
    THEN /\ Running(t) /\ thr[t].pc = "idle"
         /\ c \in NextRequest(t)
         /\ launches < MaxLaunches
         /\ launches' = launches + 1
         /\ cmd' = [CmdAtCall(t, c) EXCEPT ![c].phase = "nohook", ![c].argv0 = path]
         /\ notify' = NotifyReleased(t)
         /\ fds' = FdsReleased(t)
         /\ thr' = [thr EXCEPT ![t] =
                [Enter(t, c, "idle", "none", 0) EXCEPT !.last = "hook", !.ret = 0]]
         /\ UNCHANGED <<alive, children_to_clean, heap, installed_child_cleanup_handler,
                        sigchain, proc, kills, env, async, call, child, image>>
    ELSE /\ start_command(t, c)
         /\ cmd'[c].argv0 = find_hook(path)[1]
         /\ ~cmd'[c].clean_on_exit
         /\ cmd'[c].no_stdin = HookStreams.no_stdin
         /\ cmd'[c].no_stdout = HookStreams.no_stdout
         /\ cmd'[c].stdout_to_stderr = HookStreams.stdout_to_stderr
         /\ cmd'[c].no_stderr = HookStreams.no_stderr

\* a hook is started without clean_on_exit: the registry stays empty and
\* clear_child_for_cleanup finds *pp == NULL at once
NextHook ==
    \/ \E t \in Threads, c \in Cmds, path \in Hooks : run_hook_ve(t, c, path)
    \/ \E t \in Threads : GIT_FORK(t)
    \/ \E t \in Threads : read_notify(t)
    \/ \E t \in Threads : start_ret(t)
    \/ \E t \in Threads, c \in Cmds : finish_command(t, c)
    \/ \E t \in Threads : waitpid_EINTR(t)
    \/ \E t \in Threads : waitpid_reaps(t)
    \/ \E t \in Threads : waitpid_fails(t)
    \/ \E t \in Threads : clear_load(t)
    \/ \E t \in Threads : wait_ret(t)
    \/ \E q \in Pids : child_exec(q)
    \/ \E q \in Pids : child_dies_before_exec(q)
    \/ \E q \in Pids : child_exit_completes(q)
    \/ \E q \in Pids, n \in ProgramExitCodes : program_exits(q, n)
    \/ \E q \in Pids, s \in DeathSignals : program_signaled(q, s)

SpecHook == InitHook /\ [][NextHook]_vars

\* ------------------------------------------------------------------ shell

\* the longest argument and the longest argument list that are tried
MaxLen == 2
MaxArgs == 2
\* the characters arguments are made of: a plain one and two the shell reads
Chars == {"a", " ", "$"}
\* a C string is the sequence of its characters, an argv the sequence of
\* its strings (the terminating NULL is the end of the sequence)
Strings == UNION {[1..n -> Chars] : n \in 0..MaxLen}
Argvs == UNION {[1..n -> Strings] : n \in 0..MaxArgs}

\* line 14
SHELL_PATH == <<"/", "b", "i", "n", "/", "s", "h">>
\* line 177, the reject set handed to strcspn
ShellReject == {"|", "&", ";", "<", ">", "(", ")", "$", "`", "\\", "\"", "'",
                " ", "\t", "\n", "*", "?", "[", "#", "~", "=", "%"}

\* strcspn(3): the length of the longest prefix of str free of reject
RECURSIVE strcspn(_, _)
strcspn(str, reject) ==
    IF str = <<>> \/ Head(str) \in reject
    THEN 0
    ELSE 1 + strcspn(Tail(str), reject)

\* strbuf_addf(&arg0, "%s \"$@\"", argv[0]), line 187
arg0_with_args(str) == str \o <<" ", "\"", "$", "@", "\"">>

\* prepare_shell_cmd with the test of line 177 made on every argument
prepare_shell_cmd_any_element(argv) ==
    IF Len(argv) < 1
    THEN [die |-> TRUE, nargv |-> <<>>]
    ELSE [die |-> FALSE,
          nargv |->
            (IF \E i \in 1..Len(argv) :
                   strcspn(argv[i], ShellReject) # Len(argv[i])
             THEN <<SHELL_PATH, <<"-", "c">>,
                    IF Len(argv) < 2 THEN argv[1] ELSE arg0_with_args(argv[1])>>
             ELSE <<>>) \o argv]

\* lines 164-198: die on an empty command; the prefix "sh -c <argv[0]>" when
\* argv[0] has a character of the reject set; then all of argv
prepare_shell_cmd(argv) ==
    IF Len(argv) < 1
    THEN [die |-> TRUE, nargv |-> <<>>]
    ELSE [die |-> FALSE,
          nargv |->
            (IF strcspn(argv[1], ShellReject) # Len(argv[1])
             THEN <<SHELL_PATH, <<"-", "c">>,
                    IF Len(argv) < 2 THEN argv[1] ELSE arg0_with_args(argv[1])>>
             ELSE <<>>) \o argv]

\* a command with use_shell set and its argv, about to be executed
InitShell ==
    /\ InitCommon
    /\ async = InitAsync
    /\ thr = [t \in Threads |-> [InitThr EXCEPT !.pc = "off"]]
    /\ env = [notify_pipe_fails |-> FALSE, files |-> {},
              codes |-> {}, signals |-> {},
              requests |-> [t \in Threads |-> {}],
              common |-> {}, disposition |-> "default",
              streams |-> {Inherit}, clean |-> {FALSE}]
    /\ call \in {[NoCall EXCEPT !.arg = argv] : argv \in Argvs}
    /\ child = NoChild
    /\ image = NoImages

\* lines 200-208: execv_shell_cmd hands the prepared vector to sane_execvp
execv_shell_cmd ==
    /\ call.fn = "none"
    /\ call' = [call EXCEPT !.fn = "execv_shell_cmd",
                            !.res = prepare_shell_cmd(call.arg)]
    /\ UNCHANGED <<alive, children_to_clean, heap,
                   installed_child_cleanup_handler, sigchain, cmd, notify,
                   proc, kills, thr, env, launches, fds, async, child, image>>

NextShell == execv_shell_cmd

SpecShell == InitShell /\ [][NextShell]_vars

\* ------------------------------------------------------------------- PATH

\* the longest value of PATH that is tried
MaxPath == 3
\* getenv("PATH"): NULL when the variable is not set, else its value, made
\* of directory names of the letter d and of colons
PathValues ==
    {[set |-> FALSE, val |-> <<>>]}
    \cup {[set |-> TRUE, val |-> v] :
             v \in UNION {[1..n -> {"d", ":"}] : n \in 0..MaxPath}}
\* the command names: one without and one with a slash
ExecNames == {<<"f">>, <<"d", "/", "f">>}
\* the paths that may exist, seen from the current directory
ExecPaths == {<<"f">>, <<"d", "/", "f">>, <<"d", "d", "/", "f">>}
\* what a failed execvp may leave in errno
ExecErrnos == {"ENOENT", "EACCES", "ENOTDIR", "ENOEXEC"}

\* strchr(s, ch) != NULL
strchr(str, ch) == \E i \in 1 .. Len(str) : str[i] = ch
\* strchrnul(p, ':') - p: the length of p up to its first colon or its end
strchrnul(p, ch) == strcspn(p, {ch})

\* lines 100-130: the first path "<entry>/<file>" that exists, entry running
\* over the colon-separated entries of PATH and an empty entry giving
\* "<file>"; NULL (here the empty string) when PATH is unset or empty or no
\* entry has the file.  access(path, F_OK) is membership in files.
RECURSIVE search_PATH(_, _, _)
search_PATH(p, file, files) ==
    LET end == strchrnul(p, ":")
        buf == IF end # 0 THEN SubSeq(p, 1, end) \o <<"/">> \o file ELSE file
    IN IF buf \in files THEN buf
       ELSE IF end = Len(p) THEN <<>>
       ELSE search_PATH(SubSeq(p, end + 2, Len(p)), file, files)
locate_in_PATH(file, path, files) ==
    IF ~path.set \/ path.val = <<>> THEN <<>>
    ELSE search_PATH(path.val, file, files)

\* sane_execvp with the EACCES test only
sane_errno_eacces_only(file, e, path, files) ==
    IF e = "EACCES" /\ ~strchr(file, "/")
    THEN (IF locate_in_PATH(file, path, files) # <<>> THEN "EACCES" ELSE "ENOENT")
    ELSE e

\* lines 139-162: errno after sane_execvp, when execvp failed with errno e
sane_errno(file, e, path, files) ==
    IF e = "EACCES" /\ ~strchr(file, "/")
    THEN (IF locate_in_PATH(file, path, files) # <<>> THEN "EACCES" ELSE "ENOENT")
    ELSE IF e = "ENOTDIR" /\ ~strchr(file, "/") THEN "ENOENT"
    ELSE e

\* a command name, the PATH and the files of the process, and the errno its
\* execvp is about to fail with
InitExec ==
    /\ InitCommon
    /\ child = NoChild
    /\ image = NoImages
    /\ async = InitAsync
    /\ thr = [t \in Threads |-> [InitThr EXCEPT !.pc = "off"]]
    /\ env = [notify_pipe_fails |-> FALSE, files |-> {},
              codes |-> {}, signals |-> {},
              requests |-> [t \in Threads |-> {}],
              common |-> {}, disposition |-> "default",
              streams |-> {Inherit}, clean |-> {FALSE}]
    /\ call \in {[NoCall EXCEPT !.arg = [file |-> f, errno |-> e, PATH |-> p,
                                         files |-> fs]] :
                    f \in ExecNames, e \in ExecErrnos, p \in PathValues,
                    fs \in SUBSET ExecPaths}

\* lines 139-162: sane_execvp returns -1 and leaves errno
sane_execvp_fails ==
    /\ call.fn = "none"
    /\ call' = [call EXCEPT !.fn = "sane_execvp",
                   !.res = sane_errno(call.arg.file, call.arg.errno,
                                      call.arg.PATH, call.arg.files)]
    /\ UNCHANGED <<alive, children_to_clean, heap,
                   installed_child_cleanup_handler, sigchain, cmd, notify,
                   proc, kills, thr, env, launches, fds, async, child, image>>

NextExec == sane_execvp_fails

SpecExec == InitExec /\ [][NextExec]_vars

\* ------------------------------------------------------------------ child

\* the stream fields a request can have, flags in every combination
ChildStreams ==
    {[in |-> i, out |-> o, err |-> e, no_stdin |-> a, no_stdout |-> b,
      stdout_to_stderr |-> m, no_stderr |-> d] :
        i \in {0, -1, 1}, o \in {0, -1, 2}, e \in {0, -1, 3},
        a \in BOOLEAN, b \in BOOLEAN, m \in BOOLEAN, d \in BOOLEAN}
\* cmd->dir: NULL, a directory, a directory that cannot be entered
ChildDirs == {"", "dir", "nodir"}
\* cmd->env: NULL, an entry with '=', an entry without
ChildEnvs == {<<>>, <<"K=v">>, <<"K">>}

\* the request as the child finds it after the fork: the fields as
\* start_command's planning (lines 305-355) left them, and the need_ flags
ChildRequest(s, dir, e) ==
    LET plan == PlanStreams(1, WithStreams(1, s), "none")
    IN [no_stdin |-> s.no_stdin, no_stdout |-> s.no_stdout,
        stdout_to_stderr |-> s.stdout_to_stderr, no_stderr |-> s.no_stderr,
        in |-> plan.in, out |-> plan.out, err |-> plan.err,
        need_in |-> plan.need_in, need_out |-> plan.need_out,
        need_err |-> plan.need_err, dir |-> dir, env |-> e]

\* the three redirects with stdout made before stderr
ChildSteps_stdout_first == <<"stdin", "stdout", "stderr", "chdir", "env", "exec">>

\* lines 386-434: the statements of the child in program order
ChildSteps == <<"stdin", "stderr", "stdout", "chdir", "env", "exec">>

\* the statement that follows statement pc
NextStep(pc) ==
    LET i == CHOOSE k \in 1 .. Len(ChildSteps) : ChildSteps[k] = pc
    IN IF i = Len(ChildSteps) THEN "execd" ELSE ChildSteps[i + 1]

\* the child right after the fork, descriptors 0, 1 and 2 as the parent's
InitChild ==
    /\ InitCommon
    /\ call = NoCall
    /\ async = InitAsync
    /\ thr = [t \in Threads |-> [InitThr EXCEPT !.pc = "off"]]
    /\ env = [notify_pipe_fails |-> FALSE, files |-> {},
              codes |-> {}, signals |-> {},
              requests |-> [t \in Threads |-> {}],
              common |-> {}, disposition |-> "default",
              streams |-> ChildStreams, clean |-> {FALSE}]
    /\ image = NoImages
    /\ child \in {[NoChild EXCEPT !.pc = ChildSteps[1],
                                  !.r = ChildRequest(s, dir, e),
                                  !.cwd = "parent", !.environ = "inherited"] :
                     s \in env.streams, dir \in ChildDirs, e \in ChildEnvs}

\* a statement of the child was executed
ChildDid(what, pc) ==
    [child EXCEPT !.pc = pc, !.log = Append(child.log, what)]
ChildOnly ==
    UNCHANGED <<alive, children_to_clean, heap, installed_child_cleanup_handler,
                sigchain, cmd, notify, proc, kills, thr, env, launches, fds,
                async, call, image>>

\* lines 386-394
redirect_stdin ==
    /\ child.pc = "stdin"
    /\ child' = [ChildDid("stdin", NextStep("stdin")) EXCEPT !.fd.in =
           IF child.r.no_stdin THEN DevNull
           ELSE IF child.r.need_in THEN fdin(1)[1]
           ELSE IF child.r.in # 0 THEN child.r.in
           ELSE child.fd.in]
    /\ ChildOnly

\* lines 396-404
redirect_stderr ==
    /\ child.pc = "stderr"
    /\ child' = [ChildDid("stderr", NextStep("stderr")) EXCEPT !.fd.err =
           IF child.r.no_stderr THEN DevNull
           ELSE IF child.r.need_err THEN fderr(1)[2]
           ELSE IF child.r.err > 1 THEN child.r.err
           ELSE child.fd.err]
    /\ ChildOnly

\* lines 406-415: dup2(2, 1) copies descriptor 2 as it is at this moment
redirect_stdout ==
    /\ child.pc = "stdout"
    /\ child' = [ChildDid("stdout", NextStep("stdout")) EXCEPT !.fd.out =
           IF child.r.no_stdout THEN DevNull
           ELSE IF child.r.stdout_to_stderr THEN child.fd.err
           ELSE IF child.r.need_out THEN fdout(1)[2]
           ELSE IF child.r.out > 1 THEN child.r.out
           ELSE child.fd.out]
    /\ ChildOnly

\* lines 418-420: chdir(cmd->dir), die_errno when it fails
child_chdir ==
    /\ child.pc = "chdir"
    /\ child' = IF child.r.dir = "" THEN [child EXCEPT !.pc = NextStep("chdir")]
                ELSE IF child.r.dir = "nodir" THEN ChildDid("chdir", "died")
                ELSE [ChildDid("chdir", NextStep("chdir")) EXCEPT !.cwd = child.r.dir]
    /\ ChildOnly

\* lines 421-428: putenv for an entry with '=', unsetenv for one without
child_env ==
    /\ child.pc = "env"
    /\ child' = IF child.r.env = <<>> THEN [child EXCEPT !.pc = NextStep("env")]
                ELSE [ChildDid("env", NextStep("env")) EXCEPT !.environ =
                         IF child.r.env \in {<<"K=v">>} THEN "putenv" ELSE "unsetenv"]
    /\ ChildOnly

\* lines 429-434: the program is executed on the descriptors as they are
child_execs ==
    /\ child.pc = "exec"
    /\ child' = ChildDid("exec", NextStep("exec"))
    /\ ChildOnly

NextChild ==
    \/ redirect_stdin
    \/ redirect_stderr
    \/ redirect_stdout
    \/ child_chdir
    \/ child_env
    \/ child_execs

SpecChild == InitChild /\ [][NextChild]_vars

\* ---------------------------------------------------------- exit handlers

\* the calls of git_atexit a process makes for handlers of its own
MaxHandlers == 2

\* the handlers a program registers besides cleanup_children_on_exit
AtexitHandlers == {"h1", "h2"}

\* a sequence, last element first
Reversed(seq) == [i \in 1 .. Len(seq) |-> seq[Len(seq) + 1 - i]]

\* lines 645-651: the handlers are called, the last registered first
git_atexit_dispatch(hdlrs) == Reversed(hdlrs)

\* lines 653-658: the handlers are forgotten, and so is the registration of
\* git_atexit_dispatch
git_atexit_clear(im) == [im EXCEPT !.hdlrs = <<>>, !.git_atexit_installed = FALSE]

\* lines 661-670: the handler is appended; on the first call
\* git_atexit_dispatch is registered with the C library, which can refuse
git_atexit(im, handler, ok) ==
    LET grown == [im EXCEPT !.hdlrs = Append(@, handler)] IN
    IF im.git_atexit_installed THEN grown
    ELSE IF ok
    THEN [grown EXCEPT !.libc = Append(@, "git_atexit_dispatch"),
                       !.git_atexit_installed = TRUE]
    ELSE [grown EXCEPT !.enomem = TRUE]

\* lines 53-65 in the build without threads, where atexit is git_atexit
\* (lines 660, 671): the handlers are installed once, the pid is pushed
mark_child_for_cleanup_image(im, pid, ok) ==
    LET ready == IF ~im.installed_child_cleanup_handler
                 THEN [git_atexit(im, "cleanup_children_on_exit", ok) EXCEPT
                          !.sigchain = TRUE,
                          !.installed_child_cleanup_handler = TRUE]
                 ELSE im
    IN [ready EXCEPT !.children_to_clean = @ \cup {pid}, !.own = @ \cup {pid}]

\* exit(): the functions registered with atexit are called, the last
\* registered first; each of them is git_atexit_dispatch
RECURSIVE run_atexit(_, _)
run_atexit(libc, hdlrs) ==
    IF libc = <<>> THEN <<>>
    ELSE git_atexit_dispatch(hdlrs) \o run_atexit(SubSeq(libc, 1, Len(libc) - 1), hdlrs)

\* the pids in use in some process
ImagePids == UNION {image[p].children_to_clean : p \in Images}

\* the pid of the async child
TaskPid == 3

InitAtexit ==
    /\ InitCommon
    /\ call = NoCall
    /\ child = NoChild
    /\ async = [InitAsync EXCEPT !.mode = "process"]
    /\ thr = [t \in Threads |-> [InitThr EXCEPT !.pc = "off"]]
    /\ env = [notify_pipe_fails |-> FALSE, files |-> {},
              codes |-> {}, signals |-> {},
              requests |-> [t \in Threads |-> {}],
              common |-> {}, disposition |-> "default",
              streams |-> {Inherit}, clean |-> {TRUE}]
    /\ image = [NoImages EXCEPT !["parent"].state = "running"]

AtexitOnly ==
    UNCHANGED <<alive, children_to_clean, heap, installed_child_cleanup_handler,
                sigchain, cmd, notify, proc, kills, thr, env, launches, fds,
                async, call, child>>

\* process p calls atexit, that is git_atexit, with a handler of its own
calls_git_atexit(p) ==
    /\ image[p].state = "running"
    /\ Len(image[p].hdlrs) < MaxHandlers
    /\ \E handler \in AtexitHandlers, ok \in BOOLEAN :
        image' = [image EXCEPT ![p] = git_atexit(image[p], handler, ok)]
    /\ AtexitOnly

\* process p starts a command with clean_on_exit: lines 447-448
starts_clean_command(p) ==
    /\ image[p].state = "running"
    /\ \E pid \in Pids \ ImagePids, ok \in BOOLEAN :
        image' = [image EXCEPT ![p] = mark_child_for_cleanup_image(image[p], pid, ok)]
    /\ AtexitOnly

\* process p finishes a command it started: clear_child_for_cleanup, line 282
finishes_command(p) ==
    /\ image[p].state = "running"
    /\ \E pid \in image[p].own \ {TaskPid} :
        image' = [image EXCEPT ![p].children_to_clean = @ \ {pid}, ![p].own = @ \ {pid}]
    /\ AtexitOnly

\* lines 731-745: start_async forks; the child, a copy of the parent, clears
\* the handlers and runs the task; the parent registers the child's pid
start_async_forks ==
    /\ image["parent"].state = "running"
    /\ image["parent"].forked = "no"
    /\ \E forks \in BOOLEAN, ok \in BOOLEAN :
        image' =
            IF ~forks
            THEN [image EXCEPT !["parent"].forked = "failed"]
            ELSE [image EXCEPT
                    !["task"] = [git_atexit_clear(image["parent"]) EXCEPT
                                    !.own = {}],
                    !["parent"] = [mark_child_for_cleanup_image(
                                       image["parent"], TaskPid, ok) EXCEPT
                                    !.forked = "yes"]]
    /\ AtexitOnly

\* process p calls exit (the task at line 681): the registered functions run;
\* cleanup_children_on_exit (lines 48-51) sends SIGTERM to the registry
process_exits(p) ==
    /\ image[p].state = "running"
    /\ LET ran == run_atexit(image[p].libc, image[p].hdlrs)
           cleans == \E i \in 1 .. Len(ran) : ran[i] = "cleanup_children_on_exit"
       IN image' = [image EXCEPT
                ![p].state = "exited", ![p].log = ran,
                ![p].termed = IF cleans THEN image[p].children_to_clean ELSE {},
                ![p].children_to_clean = IF cleans THEN {} ELSE @]
    /\ AtexitOnly

NextAtexit ==
    \/ \E p \in Images : calls_git_atexit(p)
    \/ \E p \in Images : starts_clean_command(p)
    \/ \E p \in Images : finishes_command(p)
    \/ start_async_forks
    \/ \E p \in Images : process_exits(p)

SpecAtexit == InitAtexit /\ [][NextAtexit]_vars

\* ------------------------------------------------------------------ async

\* what the task function may return
TaskValues == {0, 1, 42, -1}
\* the async->in and async->out the caller may set
AsyncStreams == {[in |-> i, out |-> o] : i \in {0, -1, 1}, o \in {0, -1, 2}}
\* what can fail in start_async: a pipe(), or the fork or pthread_create
AsyncFailures == {"none", "in", "out", "create"}

\* start_async and finish_async called by one thread, in either build
InitTask ==
    /\ InitCommon
    /\ call = NoCall
    /\ child = NoChild
    /\ image = NoImages
    /\ \E m \in {"thread", "process"} : async = [InitAsync EXCEPT !.mode = m]
    /\ thr = [t \in Threads |-> [InitThr EXCEPT !.pc = "off"]]
    /\ env = [notify_pipe_fails |-> FALSE, files |-> {"prog"},
              codes |-> {0}, signals |-> {SIGTERM},
              requests |-> [t \in Threads |-> {}],
              common |-> {}, disposition |-> "default",
              streams |-> {Inherit}, clean |-> {TRUE}]

\* lines 53-65 as one step: the pid is pushed and the handlers are installed
mark_child_for_cleanup(pid) ==
    [head |-> xmalloc,
     heap |-> [heap EXCEPT ![xmalloc] =
                   [pid |-> pid, next |-> children_to_clean, used |-> TRUE]]]

\* lines 67-80 as one step: the first node that holds pid is unlinked and freed
clear_child_for_cleanup(pid) ==
    LET at == {i \in 1 .. Len(RegSeq) : RegSeq[i] = pid} IN
    IF at = {} THEN [head |-> children_to_clean, heap |-> heap]
    ELSE LET i == CHOOSE k \in at : \A j \in at : k <= j
             n == RegNodes[i]
         IN [head |-> IF i = 1 THEN heap[n].next ELSE children_to_clean,
             heap |-> [m \in Nodes |->
                         IF m = n THEN FreedNode
                         ELSE IF i > 1 /\ m = RegNodes[i - 1]
                         THEN [heap[m] EXCEPT !.next = heap[n].next]
                         ELSE heap[m]]]

\* the error label with the pipe ends left open
async_error_closes_given_only(need, pair, given) ==
    IF need THEN <<>> ELSE close_given(given)

\* lines 785-795 (and 700-703): the close calls for one stream at the error
\* label of start_async
async_error_closes(need, pair, given) ==
    IF need THEN close_pair(pair) ELSE close_given(given)

\* lines 749-757: the close calls of the parent for one stream after the fork
async_parent_closes(need, pair, end, given) ==
    IF need THEN <<pair[end]>> ELSE close_given(given)

\* line 681 with the function's value passed to exit() as it is: the status
\* the parent sees is its low eight bits
run_async_proc_unnormalised(v) == v % 256

\* lines 676-683: the exit status of a task process whose function returned v
run_async_proc(v) == IF v # 0 THEN 1 ELSE 0

\* lines 602-610: what the thread hands to pthread_join when its function
\* returned v
run_thread(v) == v

\* lines 691-724: the pipes start_async creates for the fields a when the
\* pipe() call for stream fail (if made) fails
PlanAsync(a, fail) ==
    LET need_in == a.in < 0
        need_out == a.out < 0
        in1 == IF need_in THEN fdin(0)[2] ELSE a.in
        out1 == IF need_out THEN fdout(0)[1] ELSE a.out
        pair_in == IF need_in THEN close_pair(fdin(0)) ELSE <<>>
        pair_out == IF need_out THEN close_pair(fdout(0)) ELSE <<>>
    IN  CASE need_in /\ fail = "in" ->
               [ok |-> FALSE, in |-> a.in, out |-> a.out,
                need_in |-> TRUE, need_out |-> FALSE, proc_in |-> -1, proc_out |-> -1,
                pipes |-> <<>>,
                calls |-> IF a.out > 0 THEN <<a.out>> ELSE <<>>]
          [] need_out /\ fail = "out" ->
               [ok |-> FALSE, in |-> in1, out |-> a.out,
                need_in |-> need_in, need_out |-> TRUE, proc_in |-> -1, proc_out |-> -1,
                pipes |-> pair_in,
                calls |-> async_error_closes(need_in, fdin(0), a.in)]
          [] OTHER ->
               [ok |-> TRUE, in |-> in1, out |-> out1,
                need_in |-> need_in, need_out |-> need_out,
                proc_in |-> IF need_in THEN fdin(0)[1]
                            ELSE IF a.in # 0 THEN a.in ELSE -1,
                proc_out |-> IF need_out THEN fdout(0)[2]
                             ELSE IF a.out # 0 THEN a.out ELSE -1,
                pipes |-> pair_in \o pair_out,
                calls |-> <<>>]

\* lines 685-797: start_async with the caller's fields s; fail names the call
\* that fails
start_async(s, fail) ==
    /\ alive = "running"
    /\ async.phase \in {"init", "failed", "joined"}
    /\ "main" \notin async.unwinding
    /\ launches < MaxLaunches
    /\ launches' = launches + 1
    /\ fail = "in" => s.in < 0
    /\ fail = "out" => s.out < 0
    /\ LET plan == PlanAsync(s, fail)
           before == [open |-> {f \in {s.in, s.out} : f > 0}
                                \cup {plan.pipes[i] : i \in 1 .. Len(plan.pipes)},
                      closed |-> <<>>]
           \* lines 757-768, reached when both pipes are there (thread build)
           installs == plan.ok /\ async.mode = "thread"
           filled == [InitAsync EXCEPT
                         !.mode = async.mode, !.in = plan.in, !.out = plan.out,
                         !.need_in = plan.need_in, !.need_out = plan.need_out,
                         !.last = "start",
                         !.main_thread_set = async.main_thread_set \/ installs,
                         !.die_counter = [async.die_counter EXCEPT !["task"] = FALSE],
                         !.dying = async.dying, !.dies = async.dies,
                         !.last_die = async.last_die]
       IN
       IF ~plan.ok
       THEN \* return error("cannot create pipe: ...")
            /\ async' = [filled EXCEPT !.phase = "failed", !.ret = -1, !.why = "pipe"]
            /\ fds' = close(before, plan.calls)
            /\ UNCHANGED <<children_to_clean, heap, installed_child_cleanup_handler,
                           sigchain, proc>>
       ELSE IF fail = "create"
       THEN \* goto error
            /\ async' = [filled EXCEPT
                   !.phase = "failed", !.ret = -1, !.why = "create",
                   !.pid = IF async.mode = "process" THEN -1 ELSE 0,
                   !.proc_in = IF async.mode = "thread" THEN plan.proc_in ELSE -1,
                   !.proc_out = IF async.mode = "thread" THEN plan.proc_out ELSE -1]
            /\ fds' = close(before,
                     async_error_closes(plan.need_in, fdin(0), plan.in)
                     \o async_error_closes(plan.need_out, fdout(0), plan.out))
            /\ UNCHANGED <<children_to_clean, heap, installed_child_cleanup_handler,
                           sigchain, proc>>
       ELSE IF async.mode = "thread"
       THEN \* pthread_create: the task runs in this process, on proc_in and proc_out
            /\ async' = [filled EXCEPT
                   !.phase = "started", !.ret = 0, !.task = "running",
                   !.proc_in = plan.proc_in, !.proc_out = plan.proc_out]
            /\ fds' = before
            /\ UNCHANGED <<children_to_clean, heap, installed_child_cleanup_handler,
                           sigchain, proc>>
       ELSE \* fork: the child closes its copies of the parent's ends and runs the
            \* task; the parent registers the pid and closes the child's ends
            /\ FreeNodes # {}
            /\ \E q \in Pids :
                /\ proc[q].state = "free"
                /\ proc' = [proc EXCEPT ![q] =
                       [state |-> "task", cmd |-> 0, status |-> NoStatus, inh |-> <<>>,
                        stdio |-> OwnStdio, child_err |-> "2", diag |-> NoDiag, notif |-> {},
                        fds |-> before.open,
                        drop |-> (IF plan.need_in THEN {fdin(0)[2]} ELSE {})
                                 \cup (IF plan.need_out THEN {fdout(0)[1]} ELSE {})]]
                /\ async' = [filled EXCEPT
                       !.phase = "started", !.ret = 0, !.task = "running", !.pid = q]
                /\ children_to_clean' = mark_child_for_cleanup(q).head
                /\ heap' = mark_child_for_cleanup(q).heap
            /\ installed_child_cleanup_handler' = TRUE
            /\ sigchain' = IF installed_child_cleanup_handler THEN sigchain
                            ELSE CommonSignals
            /\ fds' = close(before,
                     async_parent_closes(plan.need_in, fdin(0), 1, plan.in)
                     \o async_parent_closes(plan.need_out, fdout(0), 2, plan.out))
    /\ UNCHANGED <<alive, cmd, notify, kills, thr, env, call, child, image>>

\* the task function returns v: the thread ends with it (lines 602-610), the
\* process calls exit (lines 676-683)
task_returns(v) ==
    /\ alive = "running"
    /\ async.task = "running"
    /\ "task" \notin async.unwinding
    /\ async' = [async EXCEPT !.task = "returned", !.value = v]
    /\ IF async.mode = "process"
       THEN proc' = [proc EXCEPT ![async.pid].state = "zombie",
                                 ![async.pid].status = Exited(run_async_proc(v))]
       ELSE proc' = proc
    /\ UNCHANGED <<alive, children_to_clean, heap, installed_child_cleanup_handler,
                   sigchain, cmd, notify, kills, thr, env, launches, fds, call, child, image>>

\* the task function calls die() in the task process: exit(128) there
task_dies ==
    /\ alive = "running"
    /\ async.mode = "process"
    /\ async.task = "running"
    /\ async' = [async EXCEPT !.task = "died"]
    /\ proc' = [proc EXCEPT ![async.pid].state = "zombie",
                            ![async.pid].status = Exited(EXIT_DIE)]
    /\ UNCHANGED <<alive, children_to_clean, heap, installed_child_cleanup_handler,
                   sigchain, cmd, notify, kills, thr, env, launches, fds, call, child, image>>

\* lines 628-633 with one flag for the whole process
async_die_is_recursing_shared(counter, who) == \E w \in DieThreads : counter[w]

\* lines 628-633: what async_die_is_recursing answers in thread who, given
\* the values of async_die_counter
async_die_is_recursing(counter, who) == counter[who]

\* lines 612-626 without the test of the calling thread
die_async_exits_always(who) == "exit"

\* lines 612-626: how die_async ends when thread who called it
die_async(who) == IF who # "main" THEN "pthread_exit" ELSE "exit"

\* exit(128) of the whole process: cleanup_children_on_exit runs if installed
ProcessExits ==
    /\ alive' = "exited"
    /\ IF installed_child_cleanup_handler
       THEN cleanup_children(SIGTERM, <<>>)
       ELSE UNCHANGED <<kills, proc, heap, children_to_clean>>

\* die() called in thread who of the parent: die_is_recursing is asked first
\* (async_die_is_recursing once start_async has installed it), and a
\* recursion ends the process at once; otherwise the die routine runs
die(who) ==
    /\ alive = "running"
    /\ async.dies < MaxDies
    /\ who = "task" => async.mode = "thread" /\ async.task = "running"
    /\ LET recursing == IF async.main_thread_set
                        THEN async_die_is_recursing(async.die_counter, who)
                        ELSE async.dying
           told == [who |-> who, recursing |-> recursing,
                    first |-> who \notin async.unwinding]
           marked == [async EXCEPT
                         !.dies = async.dies + 1, !.last_die = told,
                         !.die_counter = IF async.main_thread_set
                                         THEN [async.die_counter EXCEPT ![who] = TRUE]
                                         ELSE async.die_counter,
                         !.dying = IF async.main_thread_set THEN async.dying ELSE TRUE]
       IN IF recursing
          THEN /\ async' = marked
               /\ ProcessExits
          ELSE /\ async' = [marked EXCEPT !.unwinding = async.unwinding \cup {who}]
               /\ UNCHANGED <<alive, kills, proc, heap, children_to_clean>>
    /\ UNCHANGED <<installed_child_cleanup_handler, sigchain, cmd, notify, thr, env,
                   launches, fds, call, child, image>>

\* the die routine of thread who runs to its end: die_async (lines 612-626)
\* once installed, the default routine (exit(128)) before
die_routine(who) ==
    /\ alive = "running"
    /\ who \in async.unwinding
    /\ IF async.main_thread_set /\ die_async(who) = "pthread_exit"
       THEN /\ async' = [async EXCEPT !.task = "died",
                                      !.unwinding = async.unwinding \ {who}]
            /\ fds' = close(fds, <<async.proc_in, async.proc_out>>)
            /\ UNCHANGED <<alive, kills, proc, heap, children_to_clean>>
       ELSE /\ async' = [async EXCEPT !.unwinding = async.unwinding \ {who}]
            /\ fds' = fds
            /\ ProcessExits
    /\ UNCHANGED <<installed_child_cleanup_handler, sigchain, cmd, notify, thr, env,
                   launches, call, child, image>>

\* lines 799-810: finish_async once the task has ended
finish_async ==
    /\ alive = "running"
    /\ async.phase = "started"
    /\ "main" \notin async.unwinding
    /\ IF async.mode = "process" THEN proc[async.pid].state = "zombie"
       ELSE async.task \in {"returned", "died"}
    /\ IF async.mode = "process"
       THEN LET w == proc[async.pid].status IN
            /\ async' = [async EXCEPT !.phase = "joined", !.last = "finish",
                                      !.ret = wait_code(w)]
            /\ proc' = [proc EXCEPT ![async.pid] = NoProcess]
            /\ children_to_clean' = IF clears_child(w)
                                    THEN clear_child_for_cleanup(async.pid).head
                                    ELSE children_to_clean
            /\ heap' = IF clears_child(w)
                       THEN clear_child_for_cleanup(async.pid).heap
                       ELSE heap
       ELSE /\ async' = [async EXCEPT
                   !.phase = "joined", !.last = "finish",
                   !.ret = IF async.task = "died" THEN EXIT_DIE
                           ELSE run_thread(async.value)]
            /\ UNCHANGED <<proc, children_to_clean, heap>>
    /\ UNCHANGED <<alive, installed_child_cleanup_handler, sigchain, cmd, notify,
                   kills, thr, env, launches, fds, call, child, image>>

NextAsync ==
    \/ \E s \in AsyncStreams, fail \in AsyncFailures : start_async(s, fail)
    \/ \E v \in TaskValues : task_returns(v)
    \/ task_dies
    \/ \E who \in DieThreads : die(who)
    \/ \E who \in DieThreads : die_routine(who)
    \/ finish_async

SpecAsync == InitTask /\ [][NextAsync]_vars

\* ------------------------------------------------------------ properties

\* thread t's last call was start_command / finish_command and has returned
StartReturned(t) ==
    alive = "running" /\ thr[t].pc = "idle" /\ thr[t].last = "start"
FinishReturned(t) ==
    alive = "running" /\ thr[t].pc = "idle" /\ thr[t].last = "finish"

\* a command name that no directory of PATH holds
NoSuchProgram(file) == ~HasSlash(file) /\ ~exists_in_PATH(file)

\* C1 as stated: whenever the child exited normally with a code N in 0..127
\* and finish_command has returned, it has returned exactly N.
C1_EveryCodeBelow128 ==
    \A t \in Threads :
        (FinishReturned(t) /\ thr[t].wst.kind = "exited"
            /\ thr[t].wst.val >= 0 /\ thr[t].wst.val < 128)
        => thr[t].ret = thr[t].wst.val

\* C1: whenever the child exited normally with a code N in 0..126 and
\* finish_command has returned, it has returned exactly N; for N = 127 it has
\* returned -1 with errno ENOENT.
C1_ExitCodeReturned ==
    \A t \in Threads :
        (FinishReturned(t) /\ thr[t].wst.kind = "exited"
            /\ thr[t].wst.val >= 0 /\ thr[t].wst.val < 128)
        => IF thr[t].wst.val = EXIT_ENOENT
           THEN thr[t].ret = -1 /\ thr[t].errno = "ENOENT"
           ELSE thr[t].ret = thr[t].wst.val

C1_Witness ==
    \E t \in Threads :
        /\ FinishReturned(t)
        /\ thr[t].wst = Exited(1)
        /\ thr[t].ret = 1

\* C2: when the child of a request naming a command that no PATH directory
\* holds has attempted the exec and its exit status has been reaped, the call
\* in which that surfaces (start_command failing, or finish_command) has
\* returned -1 with errno ENOENT.
C2_NotFound ==
    \A t \in Threads :
        LET c == thr[t].cmd IN
        (/\ (StartReturned(t) /\ thr[t].ret # 0) \/ FinishReturned(t)
         /\ NoSuchProgram(cmd[c].argv0)
         /\ cmd[c].why = "exec"
         /\ thr[t].wst.kind = "exited")
        => thr[t].ret = -1 /\ thr[t].errno = "ENOENT"

C2_Witness ==
    \E t \in Threads :
        /\ FinishReturned(t)
        /\ cmd[thr[t].cmd].argv0 = "hidden"
        /\ cmd[thr[t].cmd].why = "exec"
        /\ thr[t].wst = Exited(EXIT_ENOENT)
        /\ thr[t].ret = -1 /\ thr[t].errno = "ENOENT"

\* C3 as stated: once the exec has failed in the child of a request whose
\* notification pipe exists, the byte has been written to the pipe, and
\* start_command does not return 0 for that request.
C3_ExecFailureNotified ==
    \A c \in Cmds :
        (alive = "running" /\ cmd[c].why = "exec" /\ notify[c].created)
        => notify[c].byte /\ cmd[c].phase # "started"

\* C4 as stated: whenever start_command has returned -1 because the child's
\* exec failed, errno is ENOENT.
C4_AlwaysNotFound ==
    \A t \in Threads :
        (StartReturned(t) /\ thr[t].ret = -1 /\ cmd[thr[t].cmd].why = "exec")
        => thr[t].errno = "ENOENT"

\* C4: whenever start_command has returned -1 because the child's exec
\* failed, errno is the one wait_or_whine derived from reaping the child: 0
\* for die_child's exit status 128 whatever the exec's error was, ENOENT only
\* for exit status 127, the waitpid error when waitpid failed.
C4_ErrnoFromReaping ==
    \A t \in Threads :
        (StartReturned(t) /\ thr[t].ret = -1 /\ cmd[thr[t].cmd].why = "exec")
        => CASE thr[t].wst = Exited(EXIT_DIE) -> thr[t].errno = NOERR
             [] thr[t].wst = Exited(EXIT_ENOENT) -> thr[t].errno = "ENOENT"
             [] thr[t].wst.kind = "failed" -> thr[t].errno = "ECHILD"
             [] thr[t].wst.kind = "otherpid" -> thr[t].errno = NOERR
             [] OTHER -> FALSE

C4_Witness ==
    \E t \in Threads :
        /\ StartReturned(t) /\ thr[t].ret = -1
        /\ cmd[thr[t].cmd].why = "exec"
        /\ sane_execvp(cmd[thr[t].cmd].argv0) = "EACCES"
        /\ thr[t].wst = Exited(EXIT_DIE)
        /\ thr[t].errno = NOERR

\* C5 as stated: in no state is the pid of a child that has written the
\* notification byte in the registry.
C5_NeverRegistered ==
    \A c \in Cmds :
        (alive = "running" /\ notify[c].byte)
        => \A q \in ChildOf(c) : q \notin RegPids

\* C5: once start_command has returned -1 for a child that wrote the
\* notification byte, the registry does not contain its pid (with
\* clean_on_exit it was registered before the byte was read and removed by
\* wait_or_whine).
C5_NotRegisteredAtReturn ==
    \A t \in Threads :
        (StartReturned(t) /\ thr[t].ret = -1 /\ notify[thr[t].cmd].byte)
        => cmd[thr[t].cmd].cpid \notin RegPids

C5_Witness ==
    \E t \in Threads :
        /\ StartReturned(t) /\ thr[t].ret = -1
        /\ notify[thr[t].cmd].byte
        /\ cmd[thr[t].cmd].clean_on_exit
        /\ cmd[thr[t].cmd].cpid \notin RegPids
        /\ RegSeq # <<>>

\* C6: whenever start_command has returned 0 for a request with clean_on_exit
\* the registry holds the child's pid (on top of what it held at entry);
\* whenever it has returned for a request without clean_on_exit the registry
\* is what it was at entry.
C6_RegisteredAtReturn ==
    \A t \in Threads :
        LET c == thr[t].cmd IN
        StartReturned(t) =>
            /\ (thr[t].ret = 0 /\ cmd[c].clean_on_exit) =>
                   /\ cmd[c].pid \in RegPids
                   /\ RegSeq = <<cmd[c].pid>> \o cmd[c].reg0
            /\ ~cmd[c].clean_on_exit => RegSeq = cmd[c].reg0

C6_Witness ==
    \E t \in Threads :
        LET c == thr[t].cmd IN
        /\ StartReturned(t) /\ thr[t].ret = 0
        /\ cmd[c].clean_on_exit
        /\ cmd[c].reg0 # <<>>
        /\ RegSeq = <<cmd[c].pid>> \o cmd[c].reg0

\* C7: whenever finish_command has returned for pid P, P is not in the
\* registry, whatever waitpid handed back (exit, death by signal, failure,
\* another pid); after the two error outcomes the caller is running and has
\* been returned -1.
C7_ClearedAfterFinish ==
    \A t \in Threads :
        FinishReturned(t) =>
            /\ thr[t].wst.kind \in {"exited", "signaled", "failed", "otherpid"}
            /\ cmd[thr[t].cmd].cpid \notin RegPids
            /\ thr[t].wst.kind \in {"failed", "otherpid"} => thr[t].ret = -1

C7_Witness ==
    \E t \in Threads :
        /\ FinishReturned(t)
        /\ thr[t].wst.kind = "otherpid"
        /\ cmd[thr[t].cmd].clean_on_exit
        /\ thr[t].ret = -1
        /\ RegSeq # <<>>

\* a cleanup step taken when finish_command has returned for pid P sends no
\* signal to P
C8_NoSignalAfterFinish ==
    \A t \in Threads :
        FinishReturned(t) =>
            \A i \in (Len(kills) + 1) .. Len(kills') :
                kills'[i].pid # cmd[thr[t].cmd].cpid

\* the registry is restored by start_command with clean_on_exit followed by
\* finish_command, no other request having been started or finished meanwhile
C8_RegistryRestored ==
    \A t \in Threads :
        LET c == thr[t].cmd IN
        (FinishReturned(t) /\ cmd[c].clean_on_exit /\ cmd[c].alone)
        => RegSeq = cmd[c].reg0

\* C8: once finish_command has returned for a child started with
\* clean_on_exit, the registry is what it was before the launch, and a
\* cleanup on a signal or at exit that runs then sends no signal to that
\* child's pid.
C8_RoundTrip == [](C8_RegistryRestored) /\ [][C8_NoSignalAfterFinish]_vars

C8_Witness ==
    \E t \in Threads :
        LET c == thr[t].cmd IN
        /\ FinishReturned(t)
        /\ cmd[c].clean_on_exit /\ cmd[c].alone
        /\ cmd[c].reg0 # <<>>
        /\ RegSeq = cmd[c].reg0
        /\ installed_child_cleanup_handler

\* C9 as stated: in every state of the running process, where a signal can
\* run the cleanup handler, every pid in the registry names a child that was
\* started and has not been reaped.
C9_RegistryNamesUnreaped ==
    alive = "running" =>
        \A i \in 1 .. Len(RegSeq) : proc[RegSeq[i]].state # "free"

\* C10 as stated: once both threads have returned 0 from start_command with
\* clean_on_exit, both pids are in the registry.
C10_BothRegistered ==
    (\A t \in Threads :
        /\ StartReturned(t) /\ thr[t].ret = 0
        /\ cmd[thr[t].cmd].clean_on_exit)
    => \A t \in Threads : cmd[thr[t].cmd].pid \in RegPids

\* C11 as stated: with a handler that returns to the statement it interrupted,
\* no freed node is ever reachable from children_to_clean and no operation on
\* the registry ever uses a freed node.
C11_ListWellFormed ==
    /\ alive # "undefined"
    /\ alive = "running" => ~ListDangles

\* the calls logged by the step being taken
NewCalls == SubSeq(kills', Len(kills) + 1, Len(kills'))

\* the step runs the cleanup handler: on signal sig, or at exit (with SIGTERM)
HandlerRuns(sig) ==
    /\ alive = "running"
    /\ \/ sig \in sigchain /\ sig \notin sigchain'
       \/ alive' = "exited" /\ installed_child_cleanup_handler /\ sig = SIGTERM

C12_EachSignalledOnce ==
    \A sig \in CommonSignals :
        HandlerRuns(sig) =>
            /\ \A p \in RegPids :
                   Cardinality({i \in 1 .. Len(NewCalls) :
                       NewCalls[i].op = "kill" /\ NewCalls[i].pid = p}) = 1
            /\ \A i \in 1 .. Len(NewCalls) :
                   NewCalls[i].op = "kill" =>
                       NewCalls[i].pid \in RegPids /\ NewCalls[i].sig = sig
            /\ children_to_clean' = NULL

\* C12: every step in which the cleanup handler runs sends the signal (the
\* delivered one on the signal path, SIGTERM at exit) exactly once to every
\* pid the registry holds before the step, to no other pid, and leaves the
\* registry empty.
C12_CleanupSignalsAll == [][C12_EachSignalledOnce]_vars

C12_Witness ==
    /\ alive = "killed"
    /\ children_to_clean = NULL
    /\ \E i, j \in 1 .. Len(kills) :
           /\ kills[i].op = "kill" /\ kills[j].op = "kill"
           /\ kills[i].pid # kills[j].pid
           /\ kills[i].sig = SIGINT /\ kills[j].sig = SIGINT
           /\ kills[i].by = "parent" /\ kills[j].by = "parent"

C13_InOrder ==
    \A sig \in CommonSignals :
        (alive = "running" /\ sig \in sigchain /\ sig \notin sigchain') =>
            LET n == Len(NewCalls) IN
            /\ n = Len(RegSeq) + 2
            /\ \A i \in 1 .. n - 2 :
                   NewCalls[i].op = "kill" /\ NewCalls[i].sig = sig
            /\ NewCalls[n - 1].op = "sigchain_pop" /\ NewCalls[n - 1].sig = sig
            /\ NewCalls[n].op = "raise" /\ NewCalls[n].sig = sig
            /\ env.disposition = "default" => alive' = "killed"

\* C13: every step in which the signal handler runs for signal sig makes its
\* calls in this order: kill(pid, sig) for every registered pid, then
\* sigchain_pop(sig), then raise(sig) last; raise is always called, and under
\* the default disposition the signal ends the process.
C13_HandlerOrder == [][C13_InOrder]_vars

C13_Witness ==
    /\ alive = "killed"
    /\ Len(kills) >= 3
    /\ kills[Len(kills) - 2].op = "kill"
    /\ kills[Len(kills) - 1].op = "sigchain_pop"
    /\ kills[Len(kills)].op = "raise"
    /\ kills[Len(kills)].sig = kills[Len(kills) - 2].sig

\* C14: whenever finish_command has returned for a child that a signal S
\* terminated, it has returned 128 + S.
C14_SignalStatus ==
    \A t \in Threads :
        (FinishReturned(t) /\ thr[t].wst.kind = "signaled")
        => thr[t].ret = 128 + thr[t].wst.val

C14_Witness ==
    \E t \in Threads :
        /\ FinishReturned(t)
        /\ thr[t].wst = Signaled(SIGTERM)
        /\ thr[t].ret = 128 + SIGTERM

\* ------------------------------------------------------------ descriptors

\* start_command has returned to thread t after a pipe() for a stream failed
PipeFailed(t) == StartReturned(t) /\ cmd[thr[t].cmd].why = "pipe"

\* C15 as stated: when creating a stream pipe fails, start_command returns -1,
\* no process was created, and every descriptor of the request (both ends of
\* the pipes already created, and the caller's cmd->in, cmd->out and cmd->err)
\* is closed.
C15_PipeFailureClosesAll ==
    \A t \in Threads :
        PipeFailed(t) =>
            /\ thr[t].ret = -1
            /\ ChildOf(thr[t].cmd) = {}
            /\ fds.open \cap FdsOf(thr[t].cmd) = {}

\* start_command has returned to thread t after the fork failed
ForkFailed(t) == StartReturned(t) /\ cmd[thr[t].cmd].why = "fork"

\* the number of close() calls the parent made on descriptor f
Closes(f) == Cardinality({i \in 1 .. Len(fds.closed) : fds.closed[i] = f})

\* the descriptors request c had when start_command went past its planning
Planned(t, c) ==
    {f \in {cmd[c].in, cmd[c].out, cmd[c].err} : f > 0}
    \cup (IF thr[t].need_in THEN {fdin(c)[1], fdin(c)[2]} ELSE {})
    \cup (IF thr[t].need_out THEN {fdout(c)[1], fdout(c)[2]} ELSE {})
    \cup (IF thr[t].need_err THEN {fderr(c)[1], fderr(c)[2]} ELSE {})

\* C16: when the fork fails, start_command returns -1 with the errno of the
\* fork, every pipe end it created and every descriptor the caller supplied
\* has been closed (once), and the registry is as it was at the call.
C16_ForkFailureClosesAll ==
    \A t \in Threads :
        ForkFailed(t) =>
            LET c == thr[t].cmd IN
            /\ thr[t].ret = -1
            /\ thr[t].errno = "EAGAIN"
            /\ ChildOf(c) = {}
            /\ fds.open \cap FdsOf(c) = {}
            /\ \A f \in FdsOf(c) : Closes(f) = IF f \in Planned(t, c) THEN 1 ELSE 0
            /\ RegSeq = cmd[c].reg0

\* a fork failure of a request with a pipe and a descriptor of the caller,
\* while another child is registered
C16_Witness ==
    \E t \in Threads :
        /\ ForkFailed(t)
        /\ thr[t].need_out
        /\ cmd[thr[t].cmd].err = Fd(thr[t].cmd, 3)
        /\ Closes(fdout(thr[t].cmd)[1]) = 1
        /\ Closes(Fd(thr[t].cmd, 3)) = 1
        /\ RegSeq # <<>>

\* the descriptors of request c that its caller supplied
GivenOf(c) == {cmd[c].in, cmd[c].out, cmd[c].err} \cap GivenFds(c)

\* C17: once start_command is past its planning, whether it returns 0, fails
\* in the fork or reports an exec failure, the parent has closed each
\* descriptor the caller supplied exactly once.
C17_GivenClosedOnce ==
    \A t \in Threads :
        (StartReturned(t) /\ ~PipeFailed(t)) =>
            \A f \in GivenOf(thr[t].cmd) : f \notin fds.open /\ Closes(f) = 1

\* an exec failure reported by a start_command that was given all three
\* descriptors
C17_Witness ==
    \E t \in Threads :
        /\ StartReturned(t) /\ thr[t].ret = -1
        /\ cmd[thr[t].cmd].why = "exec"
        /\ GivenOf(thr[t].cmd) = GivenFds(thr[t].cmd)
        /\ \A f \in GivenFds(thr[t].cmd) : Closes(f) = 1

\* the processes, the parent included (as 0), that hold descriptor f
Holders(f) ==
    {q \in Pids : f \in ChildFds(q)} \cup (IF f \in fds.open THEN {0} ELSE {})

\* the pipe of one stream after a successful start: the field holds the
\* parent's end, which only the parent and processes forked from it hold open;
\* the parent has closed the child's end once and no process but the child
\* holds it, and the child holds it for as long as it runs
PipeHandedOver(c, field, mine, childs) ==
    /\ field = mine
    /\ mine \in fds.open
    /\ childs \notin fds.open /\ Closes(childs) = 1 /\ Closes(mine) = 0
    /\ Holders(childs) \subseteq {cmd[c].pid}
    /\ proc[cmd[c].pid].state = "execd" => Holders(childs) = {cmd[c].pid}
    /\ proc[cmd[c].pid].state = "execd" => mine \notin ChildFds(cmd[c].pid)

\* C18: after start_command returned 0, each stream for which it created a
\* pipe has the parent's end in the caller-facing field (cmd->in the write end,
\* cmd->out and cmd->err the read ends), and the child's end is closed in the
\* parent, so that the running child is the only holder of the write end of the
\* stdout pipe and the end of stream follows the child's termination.
C18_PipesHandedOver ==
    \A t \in Threads :
        (StartReturned(t) /\ thr[t].ret = 0) =>
            LET c == thr[t].cmd IN
            /\ thr[t].need_in => PipeHandedOver(c, cmd[c].in, fdin(c)[2], fdin(c)[1])
            /\ thr[t].need_out => PipeHandedOver(c, cmd[c].out, fdout(c)[1], fdout(c)[2])
            /\ thr[t].need_err => PipeHandedOver(c, cmd[c].err, fderr(c)[1], fderr(c)[2])

\* a running child started with pipes on all three streams
C18_Witness ==
    \E t \in Threads :
        /\ StartReturned(t) /\ thr[t].ret = 0
        /\ thr[t].need_in /\ thr[t].need_out /\ thr[t].need_err
        /\ proc[cmd[thr[t].cmd].pid].state = "execd"
        /\ Holders(fdout(thr[t].cmd)[2]) = {cmd[thr[t].cmd].pid}

\* ------------------------------------------------------------------ async

\* finish_async has returned for a task whose function returned
AsyncJoined == async.last = "finish" /\ async.task = "returned"

\* C19 as stated: finish_async returns the integer the task function
\* returned, in thread mode and in subprocess mode alike.
C19_SameValueBothModes == AsyncJoined => async.ret = async.value

\* C19: finish_async returns the integer the task function returned when the
\* task ran as a thread; when it ran as a subprocess it returns 0 if the
\* function returned 0 and 1 if it returned anything else.
C19_ValueByMode ==
    AsyncJoined =>
        async.ret = IF async.mode = "thread" THEN async.value
                    ELSE IF async.value = 0 THEN 0 ELSE 1

\* a subprocess task whose function returned 42, joined
C19_Witness ==
    AsyncJoined /\ async.mode = "process" /\ async.value = 42 /\ async.ret = 1

\* start_async has returned after a pipe(), the fork or pthread_create failed
AsyncFailed == async.last = "start" /\ async.phase = "failed"

\* C20: when start_async fails it returns a negative value, no task runs, and
\* every pipe end it created and every descriptor the caller supplied is
\* closed (once).
C20_AsyncFailureClosesAll ==
    AsyncFailed =>
        /\ async.ret < 0
        /\ async.task = "none"
        /\ \A q \in Pids : proc[q].state = "free"
        /\ fds.open = {}
        /\ \A f \in FdsOf(0) : Closes(f) <= 1

\* a failed fork or pthread_create after a pipe was created for the task's
\* input, with the caller's descriptor for its output
C20_Witness ==
    /\ AsyncFailed /\ async.why = "create"
    /\ async.need_in /\ async.out = Fd(0, 2)
    /\ Closes(fdin(0)[1]) = 1 /\ Closes(fdin(0)[2]) = 1 /\ Closes(Fd(0, 2)) = 1

\* the step ends the die routine that thread who entered
DieRoutineEnds(who) == who \in async.unwinding /\ who \notin async'.unwinding

C21_Step ==
    /\ DieRoutineEnds("task") =>
           /\ alive' = "running"
           /\ async'.task = "died"
           /\ {f \in {async.proc_in, async.proc_out} : f >= 0} \cap fds'.open = {}
           /\ UNCHANGED <<proc, children_to_clean, heap, kills>>
    /\ (async.mode = "thread" /\ async.task = "died" /\ async'.last = "finish"
            /\ async.last # "finish") =>
           /\ async'.ret = 128
           /\ alive' = "running"
    /\ DieRoutineEnds("main") => alive' = "exited"
    /\ (alive = "running" /\ alive' # "running") =>
           \/ DieRoutineEnds("main")
           \/ async'.dies # async.dies /\ async'.last_die.recursing

C22_Step ==
    (async.main_thread_set /\ async'.dies # async.dies) =>
        async'.last_die.recursing = ~async'.last_die.first

\* C22: once start_async has installed async_die_is_recursing, each call of
\* die() is told "not recursing" exactly when it is the calling thread's
\* first fatal error, whatever the other thread has raised before.
C22_RecursionPerThread == [][C22_Step]_vars

\* the task thread's first fatal error, raised while the main thread is
\* already inside die(), is told it is not recursing
C22_Witness ==
    /\ async.main_thread_set
    /\ async.die_counter["main"] /\ "main" \in async.unwinding
    /\ async.last_die = [who |-> "task", recursing |-> FALSE, first |-> TRUE]

\* ---------------------------------------------------------- the child's stdio

\* C26 as stated: every diagnostic a child writes between fork and exec goes
\* to the stderr the process had before the redirects, whatever was asked for
\* its stderr (suppressed, a pipe, a descriptor of the caller, inherited).
C26_DiagnosticsToOwnStderr ==
    \A q \in Pids : proc[q].diag # NoDiag => proc[q].diag = OwnStdio.err

\* ------------------------------------------------------------------ hooks

\* run_hook_ve has returned to thread t: no hook, a failed start_command, or
\* finish_command's return
HookReturned(t) ==
    /\ alive = "running" /\ thr[t].pc = "idle"
    /\ \/ thr[t].last = "hook"
       \/ thr[t].last = "start" /\ thr[t].ret # 0
       \/ thr[t].last = "finish"

\* C23: when the hook is absent or not executable, run_hook_ve (and with it
\* run_hook_le and run_hook_with_custom_index) returns 0 and no process was
\* started.
C23_NoHookNoProcess ==
    \A t \in Threads :
        (HookReturned(t) /\ cmd[thr[t].cmd].argv0 \in {"hooks/absent", "hooks/noexec"}) =>
            /\ thr[t].ret = 0
            /\ thr[t].last = "hook"
            /\ cmd[thr[t].cmd].cpid = 0
            /\ ChildOf(thr[t].cmd) = {}

\* a hook file without the execute permission was asked for, after a hook
\* that ran
C23_Witness ==
    \E t \in Threads :
        /\ HookReturned(t) /\ thr[t].ret = 0
        /\ cmd[thr[t].cmd].argv0 = "hooks/noexec"
        /\ launches = MaxLaunches

\* C24 as stated: the hook runs with stdin suppressed and its stderr sent to
\* where its stdout goes.
C24_StderrIntoStdout ==
    \A q \in Pids :
        proc[q].state = "execd" =>
            /\ proc[q].stdio.in = DevNull
            /\ proc[q].stdio.out = OwnStdio.out
            /\ proc[q].stdio.err = OwnStdio.out

\* C24: the hook runs with stdin suppressed and its stdout sent to where its
\* stderr goes (the stderr of the caller); run_hook_ve returns what
\* finish_command returns for it.
C24_StdoutIntoStderr ==
    /\ \A q \in Pids :
           proc[q].state = "execd" =>
               /\ cmd[proc[q].cmd].argv0 = "hooks/ok"
               /\ proc[q].stdio.in = DevNull
               /\ proc[q].stdio.out = OwnStdio.err
               /\ proc[q].stdio.err = OwnStdio.err
    /\ \A t \in Threads :
           (HookReturned(t) /\ thr[t].last = "finish") =>
               thr[t].ret = wait_code(thr[t].wst)

\* a hook that ran and exited with status 1
C24_Witness ==
    \E t \in Threads :
        /\ HookReturned(t) /\ thr[t].last = "finish"
        /\ cmd[thr[t].cmd].argv0 = "hooks/ok"
        /\ thr[t].wst = Exited(1) /\ thr[t].ret = 1

\* ---------------------------------------------------------------- C25

\* a string with a character the shell reads
ShellSignificant(str) == \E i \in 1..Len(str) : str[i] \in ShellReject
\* the vector that is executed starts with the shell and "-c"
Wrapped(nargv) ==
    /\ Len(nargv) >= 2
    /\ nargv[1] = SHELL_PATH
    /\ nargv[2] = <<"-", "c">>
ShellPrepared == call.fn = "execv_shell_cmd" /\ ~call.res.die

\* C25 as stated: the command is wrapped in "sh -c" exactly when some element
\* of the argument list has a shell-significant character, and is executed
\* unchanged otherwise
C25_WrappedIffAnyElement ==
    ShellPrepared =>
        /\ Wrapped(call.res.nargv)
             <=> \E i \in 1..Len(call.arg) : ShellSignificant(call.arg[i])
        /\ ~Wrapped(call.res.nargv) => call.res.nargv = call.arg

\* C25 amended: the command is wrapped in "sh -c" exactly when its first
\* element has a shell-significant character, whatever the later elements
\* are; wrapped, the vector is the shell, "-c", the first element (followed by
\* ' "$@"' when there are more) and then the whole argument list; not wrapped,
\* it is the argument list unchanged
C25_WrappedIffFirstElement ==
    ShellPrepared =>
        /\ Wrapped(call.res.nargv) <=> ShellSignificant(call.arg[1])
        /\ ~Wrapped(call.res.nargv) => call.res.nargv = call.arg
        /\ Wrapped(call.res.nargv) =>
             /\ SubSeq(call.res.nargv, 4, Len(call.res.nargv)) = call.arg
             /\ call.res.nargv[3] =
                  IF Len(call.arg) = 1 THEN call.arg[1]
                  ELSE call.arg[1] \o <<" ", "\"", "$", "@", "\"">>

\* a plain first element followed by one with a blank was executed directly
C25_Witness ==
    /\ ShellPrepared
    /\ Len(call.arg) = 2
    /\ ~ShellSignificant(call.arg[1])
    /\ ShellSignificant(call.arg[2])
    /\ call.res.nargv = call.arg

\* ---------------------------------------------------------------- C27

\* C27 as stated: once the child of a request has exec'd or terminated, the
\* read of start_command on the notification pipe can return; no other
\* process holds the write end of that pipe, so nothing delays the read
C27_ReadNotDelayed ==
    \A t \in Threads :
        LET c == thr[t].cmd IN
        (/\ Running(t) /\ thr[t].pc = "read_notify"
         /\ notify[c].created /\ cmd[c].pid > 0
         /\ ~ChildHoldsNotify(c))
        => (notify[c].byte \/ ~OtherHoldsNotify(c))

\* ---------------------------------------------------------------- C28

\* the child of request c ended in die_child before the exec
DiedBeforeExec(c) == cmd[c].why = "cd"
\* the steps of such a child: die_errno of line 419, and the rest of its exit
ChildDeathStep ==
    \/ \E c \in Cmds : ~DiedBeforeExec(c) /\ cmd'[c].why = "cd"
    \/ \E q \in Pids : /\ proc[q].state = "dying"
                       /\ proc'[q].state = "zombie"
                       /\ proc'[q].status.kind = "exited"

\* C28 as stated: when the change of directory has failed in the child, the
\* child does not execute the program, the parent is not terminated by it,
\* and start_command, once it has returned, has returned -1
C28_ChdirFailureReported ==
    /\ [](\A c \in Cmds : DiedBeforeExec(c) =>
            \A q \in ChildOf(c) : proc[q].state \in {"dying", "zombie"})
    /\ [][ChildDeathStep => alive' = alive]_vars
    /\ [](\A t \in Threads :
            (StartReturned(t) /\ DiedBeforeExec(thr[t].cmd)) => thr[t].ret = -1)

\* C28 amended: when the change of directory has failed in the child, the
\* child does not execute the program and the parent is not terminated by
\* it; start_command returns -1 when the notification pipe was created, and
\* 0 when pipe(notify_pipe) had failed, the failure then being left to
\* finish_command
C28_ChdirFailureByPipe ==
    /\ [](\A c \in Cmds : DiedBeforeExec(c) =>
            \A q \in ChildOf(c) : proc[q].state \in {"dying", "zombie"})
    /\ [][ChildDeathStep => alive' = alive]_vars
    /\ [](\A t \in Threads :
            (StartReturned(t) /\ DiedBeforeExec(thr[t].cmd)) =>
                thr[t].ret = IF notify[thr[t].cmd].created THEN -1 ELSE 0)

\* start_command returned -1 for a child that died of the failed chdir, the
\* parent running
C28_Witness ==
    \E t \in Threads :
        /\ StartReturned(t) /\ DiedBeforeExec(thr[t].cmd)
        /\ notify[thr[t].cmd].byte
        /\ thr[t].wst = Exited(EXIT_DIE)
        /\ thr[t].ret = -1

\* ---------------------------------------------------------------- C29

\* C29 as stated: a child that terminates before the exec sends no signal to
\* a pid of the registry it inherited; every signal a registered child gets
\* from this code is sent by the parent
C29_ChildSignalsNobody ==
    \A i \in 1 .. Len(kills) : kills[i].by # "child"

\* ---------------------------------------------------------------- C30

\* request c has a clean_on_exit child that fork has created and that has
\* not terminated
LiveCleanChild(c) ==
    /\ cmd[c].clean_on_exit
    /\ cmd[c].phase \in {"starting", "started"}
    /\ cmd[c].pid > 0
    /\ proc[cmd[c].pid].cmd = c
    /\ proc[cmd[c].pid].state \in {"forked", "dying", "execd"}

C30_Step ==
    \A sig \in CommonSignals :
        (alive = "running" /\ sig \in sigchain /\ sig \notin sigchain') =>
            \A c \in Cmds :
                LiveCleanChild(c) =>
                    \E i \in 1 .. Len(NewCalls) :
                        /\ NewCalls[i].op = "kill"
                        /\ NewCalls[i].pid = cmd[c].pid
                        /\ NewCalls[i].sig = sig

\* C30 as stated: every step in which the signal handler runs sends the signal
\* to every clean_on_exit child that fork has created and that still runs,
\* whether or not mark_child_for_cleanup has inserted its pid yet
C30_EveryCleanChildSignalled == [][C30_Step]_vars

\* ---------------------------------------------------------------- C31

\* where the child's stderr leads in the end: /dev/null, the stderr pipe, the
\* descriptor supplied, or the stderr it was forked with
FinalStderr ==
    IF child.r.no_stderr THEN DevNull
    ELSE IF child.r.need_err THEN fderr(1)[2]
    ELSE IF child.r.err > 1 THEN child.r.err
    ELSE OwnStdio.err
\* the position of statement what in the child's log, 0 when it was not made
Position(what) ==
    IF \E i \in 1 .. Len(child.log) : child.log[i] = what
    THEN CHOOSE i \in 1 .. Len(child.log) : child.log[i] = what
    ELSE 0
RedirectsDone == \A w \in {"stdin", "stderr", "stdout"} : Position(w) > 0
\* the redirects are made, stderr before stdout, before the statement what
AfterRedirects(what) ==
    Position(what) > 0 =>
        /\ \A w \in {"stdin", "stderr", "stdout"} :
               Position(w) > 0 /\ Position(w) < Position(what)
        /\ Position("stderr") < Position("stdout")

\* C31 as stated: stderr is redirected before stdout, so that with
\* stdout_to_stderr set the child's stdout leads to the final destination of
\* its stderr, and the three redirects are complete before the chdir, the
\* environment changes and the exec
C31_StdoutFollowsStderr ==
    /\ \A w \in {"chdir", "env", "exec"} : AfterRedirects(w)
    /\ (RedirectsDone /\ child.r.stdout_to_stderr) =>
           child.fd.out = FinalStderr /\ child.fd.err = FinalStderr

\* C31 amended: the same, for a request that does not also set no_stdout;
\* with no_stdout set the child's stdout is /dev/null whatever
\* stdout_to_stderr says
C31_StdoutFollowsStderrUnlessNull ==
    /\ \A w \in {"chdir", "env", "exec"} : AfterRedirects(w)
    /\ RedirectsDone => child.fd.err = FinalStderr
    /\ (RedirectsDone /\ child.r.stdout_to_stderr /\ ~child.r.no_stdout) =>
           child.fd.out = FinalStderr
    /\ (RedirectsDone /\ child.r.no_stdout) => child.fd.out = DevNull

\* a child with stdout_to_stderr and a stderr pipe has executed the program
\* in the directory asked for, its stdout on the stderr pipe
C31_Witness ==
    /\ child.pc = "execd"
    /\ child.r.stdout_to_stderr /\ ~child.r.no_stdout /\ child.r.need_err
    /\ child.fd.out = fderr(1)[2] /\ child.fd.err = fderr(1)[2]
    /\ child.cwd = "dir"
    /\ child.log = <<"stdin", "stderr", "stdout", "chdir", "env", "exec">>

\* ---------------------------------------------------------------- C34

\* the place of the (first) close of descriptor f among the parent's calls
ClosedAt(f) == CHOOSE i \in 1 .. Len(fds.closed) : fds.closed[i] = f
\* start_command failed in thread t creating the stderr pipe, after it had
\* created the stdin pipe and the stdout pipe
BothPipesUndone(t) ==
    PipeFailed(t) /\ thr[t].need_in /\ thr[t].need_out /\ thr[t].need_err
\* the ends of the pipes start_command had created when planning failed
UndonePipes(t) ==
    LET c == thr[t].cmd IN
    (IF thr[t].need_in /\ (thr[t].need_out \/ thr[t].need_err)
     THEN {fdin(c)[1], fdin(c)[2]} ELSE {})
    \cup (IF thr[t].need_out /\ thr[t].need_err
          THEN {fdout(c)[1], fdout(c)[2]} ELSE {})

\* C34 as stated: when creating a pipe fails, the pipes already created are
\* closed in reverse planning order, the stdout pipe before the stdin pipe,
\* and no descriptor is closed twice
C34_ReverseOrder ==
    \A t \in Threads :
        LET c == thr[t].cmd IN
        /\ PipeFailed(t) => \A f \in FdsOf(c) : Closes(f) <= 1
        /\ BothPipesUndone(t) =>
               \A o \in {fdout(c)[1], fdout(c)[2]}, i \in {fdin(c)[1], fdin(c)[2]} :
                   Closes(o) = 1 /\ Closes(i) = 1 /\ ClosedAt(o) < ClosedAt(i)

\* C34 amended: when creating a pipe fails, both ends of each pipe already
\* created are closed exactly once, in planning order (the stdin pipe before
\* the stdout pipe), and no descriptor is closed twice
C34_PlanningOrder ==
    \A t \in Threads :
        LET c == thr[t].cmd IN
        /\ PipeFailed(t) =>
               /\ \A f \in FdsOf(c) : Closes(f) <= 1
               /\ \A f \in UndonePipes(t) : Closes(f) = 1 /\ f \notin fds.open
        /\ BothPipesUndone(t) =>
               \A o \in {fdout(c)[1], fdout(c)[2]}, i \in {fdin(c)[1], fdin(c)[2]} :
                   ClosedAt(i) < ClosedAt(o)

\* the stderr pipe failed after the stdin and stdout pipes were created
C34_Witness ==
    \E t \in Threads :
        /\ BothPipesUndone(t)
        /\ fds.closed = close_pair(fdin(thr[t].cmd)) \o close_pair(fdout(thr[t].cmd))

\* ---------------------------------------------------------------- C35

\* the notification pipe of the request of thread t could not be created
NoNotifyPipe(t) ==
    ~notify[thr[t].cmd].created /\ cmd[thr[t].cmd].why \notin {"pipe", "fork"}

\* C35: when pipe(notify_pipe) has failed and the fork succeeds, start_command
\* has launched the child and returns 0; when the program does not exist and
\* the child's exit status has been reaped, finish_command returns -1 with
\* errno ENOENT
C35_NoPipeFinishReports ==
    \A t \in Threads :
        LET c == thr[t].cmd IN
        /\ (StartReturned(t) /\ NoNotifyPipe(t)) =>
               /\ thr[t].ret = 0
               /\ cmd[c].cpid > 0 /\ cmd[c].pid = cmd[c].cpid
        /\ (/\ FinishReturned(t) /\ NoNotifyPipe(t)
            /\ NoSuchProgram(cmd[c].argv0) /\ cmd[c].why = "exec"
            /\ thr[t].wst.kind = "exited")
           => thr[t].ret = -1 /\ thr[t].errno = "ENOENT"

\* without the pipe, finish_command reported the program that does not exist
C35_Witness ==
    \E t \in Threads :
        /\ FinishReturned(t) /\ NoNotifyPipe(t)
        /\ cmd[thr[t].cmd].argv0 = "missing"
        /\ cmd[thr[t].cmd].why = "exec"
        /\ thr[t].wst = Exited(EXIT_ENOENT)
        /\ thr[t].ret = -1 /\ thr[t].errno = "ENOENT"

\* ---------------------------------------------------------------- C36

\* the colon-separated entries of a PATH value: the stretches between two
\* colons, the start or the end, empty ones included; none for an unset or
\* empty PATH
PathEntries(path) ==
    IF ~path.set \/ path.val = <<>> THEN {}
    ELSE LET v == path.val IN
         {SubSeq(v, i, j) : <<i, j>> \in
             {ij \in (1 .. Len(v) + 1) \X (0 .. Len(v)) :
                 /\ ij[2] >= ij[1] - 1
                 /\ ij[1] = 1 \/ v[ij[1] - 1] = ":"
                 /\ ij[2] = Len(v) \/ v[ij[2] + 1] = ":"
                 /\ \A k \in ij[1] .. ij[2] : v[k] # ":"}}
\* the name exists in some directory of PATH, an empty entry being the
\* current directory
InSomePathDir(file, path, files) ==
    \E d \in PathEntries(path) :
        (IF d = <<>> THEN file ELSE d \o <<"/">> \o file) \in files
SaneExecvpFailed == call.fn = "sane_execvp"

\* C36: after a failed sane_execvp for a name without '/', errno is ENOENT
\* when execvp reported ENOTDIR, and when it reported EACCES and the name
\* exists in no directory of PATH; EACCES is kept when the name exists in
\* some PATH directory; for a name with '/', errno is what execvp reported
C36_ErrnoNormalised ==
    SaneExecvpFailed =>
        LET a == call.arg IN
        IF strchr(a.file, "/") THEN call.res = a.errno
        ELSE /\ a.errno = "ENOTDIR" => call.res = "ENOENT"
             /\ a.errno = "EACCES" =>
                    call.res = IF InSomePathDir(a.file, a.PATH, a.files)
                               THEN "EACCES" ELSE "ENOENT"
             /\ a.errno \notin {"ENOTDIR", "EACCES"} => call.res = a.errno

\* EACCES was kept for a name found through an empty entry of PATH, in the
\* current directory
C36_Witness ==
    /\ SaneExecvpFailed
    /\ call.arg.file = <<"f">> /\ call.arg.errno = "EACCES"
    /\ call.arg.PATH = [set |-> TRUE, val |-> <<"d", ":">>]
    /\ call.arg.files = {<<"f">>}
    /\ call.res = "EACCES"

\* ---------------------------------------------------------------- C37

\* thread t is in the waitpid of finish_command and the child has terminated
FinishWaits(t) ==
    /\ Running(t) /\ thr[t].pc = "waitpid" /\ thr[t].wfrom = "finish"
    /\ proc[thr[t].pid].state = "zombie" /\ proc[thr[t].pid].cmd = thr[t].cmd
\* a step in which waitpid fails with EINTR in thread t
Interrupted(t) ==
    /\ thr[t].pc = "waitpid"
    /\ thr'[t].eintr = thr[t].eintr + 1 \/ thr'[t].wst.kind = "interrupted"

\* C37: finish_command never returns because its wait was interrupted: a
\* waitpid that fails with EINTR is called again, a finish_command that has
\* returned reports no interrupted wait, and with finitely many interruptions
\* a finish_command whose child has terminated returns (unless a signal ends
\* the parent first)
C37_InterruptedWaitRetried ==
    /\ [][\A t \in Threads : Interrupted(t) =>
              thr'[t].pc = "waitpid" /\ thr'[t].wst = thr[t].wst]_vars
    /\ [](\A t \in Threads : FinishReturned(t) =>
              thr[t].wst.kind # "interrupted" /\ thr[t].errno # "EINTR")
    /\ \A t \in Threads :
           FinishWaits(t) ~> (FinishReturned(t) \/ alive # "running")

\* the waitpid of finish_command was interrupted and is being called again,
\* the child having terminated
C37_Witness ==
    \E t \in Threads :
        /\ FinishWaits(t)
        /\ thr[t].eintr > 0 /\ thr[t].errno = "EINTR"

\* ---- C38: a launch request is consumed by one use ----

\* the owned arrays of request c hold nothing
OwnedArraysEmpty(c) == cmd[c].args = <<>> /\ cmd[c].env_array = <<>>

\* start_command has returned failure to thread t
StartFailed(t) == StartReturned(t) /\ thr[t].ret = -1

\* C38: after start_command returns failure (pipe, fork or exec failure) or
\* after finish_command returns, the request's args and env_array are empty
C38_RequestConsumed ==
    \A t \in Threads :
        (StartFailed(t) \/ FinishReturned(t)) => OwnedArraysEmpty(thr[t].cmd)

\* start_command has failed because the child could not exec the program,
\* the request having been filled before the call
C38_Witness ==
    \E t \in Threads :
        /\ StartFailed(t)
        /\ cmd[thr[t].cmd].why = "exec"
        /\ OwnedArraysEmpty(thr[t].cmd)

\* ---------------------------------------------------------------- C32

\* process p has exited, and the C library never refused git_atexit_dispatch
\* there or, before the fork, in its parent
ExitedWithHandlers(p) == image[p].state = "exited" /\ ~image[p].enomem

\* C32: every handler registered through git_atexit is invoked exactly once
\* at process exit, in reverse order of registration; in the forked async
\* child this holds of the handlers registered after git_atexit_clear, and
\* those registered before it are not invoked
C32_HandlersOnceReversed ==
    \A p \in Images :
        ExitedWithHandlers(p) => image[p].log = Reversed(image[p].hdlrs)

\* the same of the process that was not forked by start_async
C32_ParentHandlersOnceReversed ==
    ExitedWithHandlers("parent") =>
        image["parent"].log = Reversed(image["parent"].hdlrs)

\* ---------------------------------------------------------------- C33

\* in process p the exit handler and the signal handlers of the registry are
\* in place: cleanup_children_on_exit is among the handlers that
\* git_atexit_dispatch, registered with the C library, calls
CleanupInstalled(p) ==
    /\ image[p].sigchain
    /\ image[p].git_atexit_installed
    /\ \E i \in 1 .. Len(image[p].hdlrs) :
           image[p].hdlrs[i] = "cleanup_children_on_exit"

\* C33: in every process, the async child included, each pid the process
\* has registered and not finished is sent SIGTERM when the process exits
\* normally, and while the process holds such a pid its exit and signal
\* cleanup handlers are installed
C33_OwnChildrenCleaned ==
    \A p \in Images :
        ~image[p].enomem =>
            /\ image[p].state = "exited" => image[p].own \subseteq image[p].termed
            /\ image[p].state = "running" /\ image[p].own # {} => CleanupInstalled(p)

\* the same of the process that was not forked by start_async
C33_ParentChildrenCleaned ==
    ~image["parent"].enomem =>
        /\ image["parent"].state = "exited" =>
               image["parent"].own \subseteq image["parent"].termed
        /\ image["parent"].state = "running" /\ image["parent"].own # {} =>
               CleanupInstalled("parent")

====
